---------------------------- MODULE Spec2Model ----------------------------
(***************************************************************************)
(* Model of analyzeSEO (the weighted-category variant of the analyzer):    *)
(* the browser session, the fact extraction over the rendered page, the    *)
(* 100-point scoring engine, the grade and the recommendation list.        *)
(*                                                                         *)
(* A rendered page is a record of what the cheerio selectors of the code   *)
(* read from it: lengths of the title and description, the h1 elements,    *)
(* the img elements with their alt attribute, the a[href] values, the      *)
(* JSON-LD script bodies, and the matches of the phone and address         *)
(* patterns in the body text.                                              *)
(***************************************************************************)
EXTENDS Integers, Sequences, FiniteSets, TLC

VARIABLES
    pc,            \* position of the invocation inside analyzeSEO
    url,           \* the url argument, normalised by the first lines
    browser,       \* "unset" | "open" | "closed": the `browser` local
    closeCalls,    \* number of browser.close() calls made so far
    html,          \* the rendered page (page.content()), NoPage before
    facts,         \* metaTags, headings, imagesData, linksData, content
    hasRobotsTxt,  \* result of the HEAD probe of /robots.txt
    hasSitemap,    \* result of the HEAD probe of /sitemap.xml
    result,        \* the returned object, NoResult before the return
    loadTime,      \* Date.now() - startTime around page.goto, 0 before
    vs,            \* the invocation of validateSchema: its locals and position
    pdf,           \* the invocation of generatePDF: its locals and position
    calls,         \* concurrent invocations of analyzeSEO, one frame each
    walk,          \* one run of extractSchemaTypes, call by call
    altTags        \* the invocation of checkAltTags: its input and result

vars == <<pc, url, browser, closeCalls, html, facts, hasRobotsTxt, hasSitemap, result,
          loadTime, vs, pdf, calls, walk, altTags>>

\* The variables of the other invocations, which analyzeSEO never touches.
others == <<vs, pdf, calls, walk, altTags>>

NoPage == [none |-> TRUE]
NoFacts == [none |-> TRUE]
NoResult == [none |-> TRUE]

(***************************************************************************)
(* Small helpers over sequences.                                           *)
(***************************************************************************)
RECURSIVE SumSeq(_)
SumSeq(s) == IF s = <<>> THEN 0 ELSE Head(s) + SumSeq(Tail(s))

RECURSIVE Flatten(_)
Flatten(ss) == IF ss = <<>> THEN <<>> ELSE Head(ss) \o Flatten(Tail(ss))

Contains(s, x) == \E i \in 1..Len(s) : s[i] = x

Range(s) == {s[i] : i \in 1..Len(s)}

RECURSIVE Repeat(_, _)
Repeat(x, n) == IF n = 0 THEN <<>> ELSE <<x>> \o Repeat(x, n - 1)

SeqsUpTo(S, n) == UNION {[1..k -> S] : k \in 0..n}

(***************************************************************************)
(* JSON values as JSON.parse returns them.  An object keeps its members in *)
(* insertion order (the order Object.values walks them).                   *)
(***************************************************************************)
Undefined == [k |-> "undefined"]
JNull == [k |-> "null"]
JStr(s) == [k |-> "str", s |-> s]
JNum(n) == [k |-> "num", n |-> n]
JArr(items) == [k |-> "arr", items |-> items]
JObj(fields) == [k |-> "obj", fields |-> fields]
Field(key, val) == [key |-> key, val |-> val]

\* JavaScript truthiness of a JSON value.
Truthy(v) ==
    CASE v.k = "undefined" -> FALSE
      [] v.k = "null" -> FALSE
      [] v.k = "str" -> v.s # ""
      [] v.k = "num" -> v.n # 0
      [] OTHER -> TRUE

\* typeof v === 'object' for a truthy v.
IsObjectLike(v) == v.k \in {"obj", "arr"}

\* v[key]: a member of an object, undefined on everything else.
Get(v, key) ==
    IF v.k = "obj" /\ \E i \in 1..Len(v.fields) : v.fields[i].key = key
    THEN v.fields[CHOOSE i \in 1..Len(v.fields) : v.fields[i].key = key].val
    ELSE Undefined

\* Object.values(v): member values of an object, items of an array; the
\* values of a string are its characters, which no caller recurses into.
ObjectValues(v) ==
    CASE v.k = "obj" -> [i \in 1..Len(v.fields) |-> v.fields[i].val]
      [] v.k = "arr" -> v.items
      [] OTHER -> <<>>

\* String.prototype.includes("LocalBusiness") on the type strings the pages
\* of this model use.
StrIncludesLocalBusiness(s) ==
    s \in {"LocalBusiness", "https://schema.org/LocalBusiness"}

(***************************************************************************)
(* extractSchemaTypes: the recursive walk over one parsed JSON-LD payload. *)
(* The accumulator holds the closure variables the walk writes; threw is   *)
(* set when type.includes is called on a type that has no such method, and *)
(* the exception unwinds the walk of that script.                          *)
(***************************************************************************)
NoSchemaFacts ==
    [schemaTypes |-> <<>>, hasIdentitySchema |-> FALSE, identityType |-> "",
     hasLocalBusinessSchema |-> FALSE, threw |-> FALSE]

IsIdentityType(type) ==
    type.k = "str" /\ type.s \in {"Organization", "Person", "Corporation", "LocalBusiness"}

\* The local-business test of one type: TRUE/FALSE, or "throws" when
\* type.includes is not a function.
LocalBusinessTest(type) ==
    CASE type.k = "str" ->
            IF \/ StrIncludesLocalBusiness(type.s)
               \/ type.s \in {"Restaurant", "Store", "MedicalBusiness", "ProfessionalService"}
            THEN "yes" ELSE "no"
      [] type.k = "arr" ->
            IF Contains(type.items, JStr("LocalBusiness")) THEN "yes" ELSE "no"
      [] OTHER -> "throws"

\* Array.prototype.includes on schemaTypes: by value for strings and
\* numbers, by identity (never equal to a fresh value) for objects.
SchemaTypesIncludes(types, type) ==
    type.k \in {"str", "num"} /\ Contains(types, type)

AddType(st, type) ==
    IF st.threw \/ ~Truthy(type) \/ SchemaTypesIncludes(st.schemaTypes, type)
    THEN st
    ELSE LET pushed == [st EXCEPT !.schemaTypes = Append(@, type)]
             ident == IF IsIdentityType(type)
                      THEN [pushed EXCEPT !.hasIdentitySchema = TRUE,
                                          !.identityType = type.s]
                      ELSE pushed
             lb == LocalBusinessTest(type)
         IN  CASE lb = "yes" -> [ident EXCEPT !.hasLocalBusinessSchema = TRUE]
               [] lb = "no" -> ident
               [] OTHER -> [ident EXCEPT !.threw = TRUE]

RECURSIVE AddTypes(_, _)
AddTypes(st, types) ==
    IF types = <<>> THEN st ELSE AddTypes(AddType(st, Head(types)), Tail(types))

RECURSIVE extractSchemaTypes(_, _)
RECURSIVE WalkAll(_, _)
RECURSIVE WalkValues(_, _)

\* values.forEach(item => extractSchemaTypes(item))
WalkAll(st, items) ==
    IF items = <<>> \/ st.threw THEN st
    ELSE WalkAll(extractSchemaTypes(st, Head(items)), Tail(items))

\* The "check nested objects" loop over Object.values(schema).
WalkValues(st, values) ==
    IF values = <<>> \/ st.threw THEN st
    ELSE LET value == Head(values)
             next ==
                 IF Truthy(value) /\ value.k = "obj"
                 THEN extractSchemaTypes(st, value)
                 ELSE IF value.k = "arr"
                      THEN WalkAll(st, SelectSeq(value.items,
                                       LAMBDA item : Truthy(item) /\ IsObjectLike(item)))
                      ELSE st
         IN  WalkValues(next, Tail(values))

extractSchemaTypes(st, schema) ==
    IF st.threw \/ ~Truthy(schema) THEN st
    ELSE LET graph == Get(schema, "@graph")
             type == Get(schema, "@type")
         IN  IF Truthy(graph) /\ graph.k = "arr"
             THEN WalkAll(st, graph.items)
             ELSE LET typed == IF Truthy(type)
                               THEN AddTypes(st, IF type.k = "arr" THEN type.items
                                                 ELSE <<type>>)
                               ELSE st
                  IN  WalkValues(typed, ObjectValues(schema))

(***************************************************************************)
(* A script[type="application/ld+json"] element: its body is empty (the    *)
(* code skips it), not JSON (JSON.parse throws) or a JSON value.           *)
(***************************************************************************)
EmptyScript == [body |-> "empty"]
InvalidScript == [body |-> "invalid"]
JsonScript(v) == [body |-> "json", value |-> v]

\* One iteration of ldJsonScripts.each: the try/catch resets threw.
ScanScript(st, script) ==
    IF script.body = "json"
    THEN [extractSchemaTypes(st, script.value) EXCEPT !.threw = FALSE]
    ELSE st

\* A faulty variant of ScanScripts: the first script that fails to parse
\* ends the extraction.
RECURSIVE ScanScriptsUntilFailure(_, _)
ScanScriptsUntilFailure(st, scripts) ==
    IF scripts = <<>> \/ Head(scripts).body = "invalid" THEN st
    ELSE ScanScriptsUntilFailure(ScanScript(st, Head(scripts)), Tail(scripts))

RECURSIVE ScanScripts(_, _)
ScanScripts(st, scripts) ==
    IF scripts = <<>> THEN st
    ELSE ScanScripts(ScanScript(st, Head(scripts)), Tail(scripts))

(***************************************************************************)
(* String tests on the href and text values the pages of this model use.   *)
(* TLC has no substring operator: each test is tabulated, value by value,  *)
(* as String.prototype.includes / startsWith / a regular expression        *)
(* returns it.                                                             *)
(***************************************************************************)
Hostname == "example.com"

HrefIncludes(href, part) ==
    CASE part = "facebook.com/" ->
            href \in {"https://www.facebook.com/acme", "https://www.facebook.com/acme.page"}
      [] part = "instagram.com/" -> href = "https://www.instagram.com/acme"
      [] part = "twitter.com/" -> href = "https://twitter.com/acme"
      [] part = "x.com/" -> href \in {"https://x.com/acme", "https://www.netflix.com/browse"}
      [] part = "linkedin.com/" -> href = "https://www.linkedin.com/company/acme"
      [] part = "youtube.com/" -> href = "https://www.youtube.com/@acme"
      [] part = Hostname -> href = "https://example.com/contact"
      [] OTHER -> FALSE

HrefStartsWith(href, prefix) ==
    CASE prefix = "/" -> href = "/about"
      [] prefix = "http" ->
            href \in {"https://www.facebook.com/acme", "https://www.facebook.com/acme.page",
                      "https://www.instagram.com/acme", "https://twitter.com/acme",
                      "https://x.com/acme", "https://www.netflix.com/browse",
                      "https://www.linkedin.com/company/acme",
                      "https://www.youtube.com/@acme", "https://example.com/contact",
                      "https://partner.org/"}
      [] prefix = "tel:" -> href = "tel:+15550100"
      [] OTHER -> FALSE

\* /\d/.test(text)
HasDigit(text) ==
    text \in {"555-0100", "555-0199", "(555) 010-0100", "+1 555 010 0100",
              "12 Elm Road, Springfield 62701", "Visit us at 12 Elm Road today"}

(***************************************************************************)
(* Lines 73-212: the facts read from the parsed document.                  *)
(***************************************************************************)
\* url after lines 8-11: a url with no scheme gets https://.
NormalizeUrl(u) == IF u = "example.com" THEN "https://example.com" ELSE u

\* url.startsWith("https://")
isSSL(u) == u = "https://example.com"

\* metaTags (lines 109-117); page.title and page.description are the
\* lengths of the cleaned title text and of the description content.
MetaTagsOf(page) ==
    [hasTitle |-> page.title > 0,
     titleLength |-> page.title,
     hasDescription |-> page.description > 0,
     descriptionLength |-> page.description]

\* headings (lines 119-135); page.h1 holds the length of the trimmed text
\* of each h1 element, h1Text keeps the non-empty ones.
HeadingsOf(page) ==
    [h1Count |-> Len(page.h1),
     h2Count |-> page.h2,
     h3Count |-> page.h3,
     h4Count |-> page.h4,
     hasH1 |-> Len(page.h1) > 0,
     h1Text |-> SelectSeq(page.h1, LAMBDA n : n > 0)]

\* hasAlt (line 149): the alt attribute is present and not blank.
HasAlt(alt) == alt \notin {"absent", "", " "}

\* Math.round((a / b) * 100) for 0 <= a <= b, b > 0: round half up.  On the
\* image counts of this model the double-precision product is the exact
\* quotient wherever it decides the rounding.
RoundPercent(a, b) == (200 * a + b) \div (2 * b)

\* imagesData (lines 137-178).
ImagesDataOf(page) ==
    LET all == [i \in 1..Len(page.imgs) |->
                    [alt |-> IF page.imgs[i] = "absent" THEN "" ELSE page.imgs[i],
                     hasAlt |-> HasAlt(page.imgs[i])]]
        withAltList == SelectSeq(all, LAMBDA d : d.hasAlt)
        withoutAltList == SelectSeq(all, LAMBDA d : ~d.hasAlt)
        imagesWithAlt == Len(withAltList)
        totalImages == Len(page.imgs)
    IN  [total |-> totalImages,
         withAlt |-> imagesWithAlt,
         withoutAlt |-> totalImages - imagesWithAlt,
         altPercentage |-> IF totalImages > 0
                           THEN RoundPercent(imagesWithAlt, totalImages) ELSE 100,
         all |-> all,
         withAltList |-> withAltList,
         withoutAltList |-> withoutAltList]

\* linksData (lines 180-200).
IsInternalHref(href) == HrefStartsWith(href, "/") \/ HrefIncludes(href, Hostname)
\* A faulty variant of IsExternalHref: an if instead of the else-if, so an
\* absolute link to the page's own host counts in both buckets.
IsExternalHrefAnyHttp(href) == HrefStartsWith(href, "http")

IsExternalHref(href) == ~IsInternalHref(href) /\ HrefStartsWith(href, "http")

LinksDataOf(page) ==
    [total |-> Len(page.links),
     internal |-> Len(SelectSeq(page.links, IsInternalHref)),
     external |-> Len(SelectSeq(page.links, IsExternalHref)),
     broken |-> 0]

\* A faulty variant of WordCountOf: an empty body counts 0 words.
WordCountOfTokens(page) == page.words

\* bodyText.split(/\s+/).length (line 204): page.words is the number of
\* whitespace-separated words of the trimmed body text; the empty string
\* splits into one empty token.
WordCountOf(page) == IF page.words = 0 THEN 1 ELSE page.words

ContentOf(page) == [wordCount |-> WordCountOf(page)]

ExtractFacts(page) ==
    [metaTags |-> MetaTagsOf(page),
     headings |-> HeadingsOf(page),
     imagesData |-> ImagesDataOf(page),
     linksData |-> LinksDataOf(page),
     content |-> ContentOf(page)]

(***************************************************************************)
(* Lines 234-333: analytics, structured data, technicalSEO.                *)
(***************************************************************************)
\* page.signatures: the tracking-script literals of lines 235-239 that
\* html.includes finds.
HasAnalyticsOf(page) == page.signatures # {}

\* page.attrs: the attribute names, among those the selectors of lines
\* 311-312 and the validator look for, that some element carries.
HasMicrodataOf(page) == "itemtype" \in page.attrs
HasRDFaOf(page) == "vocab" \in page.attrs \/ "typeof" \in page.attrs

\* A faulty variant of TechnicalSEOFrom: hasJsonLd is true as soon as the page has a
\* JSON-LD script, whatever the scripts yield.
TechnicalSEOFromAnyScript(page, u, robots, sitemap, sf) ==
    [hasRobotsTxt |-> robots,
     hasSitemap |-> sitemap,
     hasSSL |-> isSSL(u),
     hasAnalytics |-> HasAnalyticsOf(page),
     hasSchema |-> (Len(sf.schemaTypes) > 0 \/ HasMicrodataOf(page) \/ HasRDFaOf(page)),
     hasJsonLd |-> Len(page.ldJson) > 0,
     schemaTypes |-> sf.schemaTypes,
     hasIdentitySchema |-> sf.hasIdentitySchema,
     identityType |-> IF sf.hasIdentitySchema THEN sf.identityType ELSE "",
     hasLocalBusinessSchema |-> sf.hasLocalBusinessSchema,
     hasMicrodata |-> HasMicrodataOf(page),
     hasRDFa |-> HasRDFaOf(page)]

\* technicalSEO (lines 310-333) from the closure variables sf the walk over
\* the scripts has left.
TechnicalSEOFrom(page, u, robots, sitemap, sf) ==
    LET hasMicrodata == HasMicrodataOf(page)
        hasRDFa == HasRDFaOf(page)
    IN  [hasRobotsTxt |-> robots,
         hasSitemap |-> sitemap,
         hasSSL |-> isSSL(u),
         hasAnalytics |-> HasAnalyticsOf(page),
         hasSchema |-> (Len(sf.schemaTypes) > 0 \/ hasMicrodata \/ hasRDFa),
         hasJsonLd |-> (Len(page.ldJson) > 0 /\ Len(sf.schemaTypes) > 0),
         schemaTypes |-> sf.schemaTypes,
         hasIdentitySchema |-> sf.hasIdentitySchema,
         identityType |-> IF sf.hasIdentitySchema THEN sf.identityType ELSE "",
         hasLocalBusinessSchema |-> sf.hasLocalBusinessSchema,
         hasMicrodata |-> hasMicrodata,
         hasRDFa |-> hasRDFa]

TechnicalSEOOf(page, u, robots, sitemap) ==
    TechnicalSEOFrom(page, u, robots, sitemap, ScanScripts(NoSchemaFacts, page.ldJson))

(***************************************************************************)
(* Lines 335-411: social links.                                            *)
(***************************************************************************)
\* The first a[href] value that includes one of the parts, "" when none.
FirstHref(links, parts) ==
    LET hits == SelectSeq(links, LAMBDA h : \E p \in parts : HrefIncludes(h, p))
    IN  IF hits = <<>> THEN "" ELSE Head(hits)

SocialOf(page) ==
    LET linked == FirstHref(page.links, {"facebook.com/"})
        facebookUrl == IF HrefIncludes(page.ogUrl, "facebook.com/") /\ linked = ""
                       THEN page.ogUrl ELSE linked
        instagramUrl == FirstHref(page.links, {"instagram.com/"})
        twitterUrl == FirstHref(page.links, {"twitter.com/", "x.com/"})
        linkedInUrl == FirstHref(page.links, {"linkedin.com/"})
        youTubeUrl == FirstHref(page.links, {"youtube.com/"})
    IN  [hasFacebookPage |-> facebookUrl # "", facebookUrl |-> facebookUrl,
         hasInstagram |-> instagramUrl # "", instagramUrl |-> instagramUrl,
         hasTwitter |-> twitterUrl # "", twitterUrl |-> twitterUrl,
         hasLinkedIn |-> linkedInUrl # "", linkedInUrl |-> linkedInUrl,
         hasYouTube |-> youTubeUrl # "", youTubeUrl |-> youTubeUrl]

(***************************************************************************)
(* Lines 413-452: phone detection.  page.phoneMatches holds, per pattern   *)
(* of phonePatterns and in that order, the matches bodyText.matchAll       *)
(* yields; page.telLinks the trimmed display text of each a[href^="tel:"]. *)
(***************************************************************************)
RECURSIVE UnshiftTelLinks(_, _)
UnshiftTelLinks(matches, texts) ==
    IF texts = <<>> THEN matches
    ELSE LET displayText == Head(texts)
             next == IF displayText # "" /\ HasDigit(displayText)
                     THEN <<[source |-> "tel:link", value |-> displayText]>> \o matches
                     ELSE matches
         IN  UnshiftTelLinks(next, Tail(texts))

PhoneMatchesOf(page) ==
    LET body == Flatten(page.phoneMatches)
        fromBody == [i \in 1..Len(body) |-> [source |-> "bodyText", value |-> body[i]]]
    IN  UnshiftTelLinks(fromBody, page.telLinks)


(***************************************************************************)
(* Lines 454-555: address detection.                                       *)
(***************************************************************************)
NoAddr == [found |-> FALSE, threw |-> FALSE, text |-> ""]

\* [a, b, c, d].filter(Boolean).join(', ') over string members.
RECURSIVE JoinParts(_)
JoinParts(parts) ==
    IF parts = <<>> THEN ""
    ELSE IF Len(parts) = 1 THEN Head(parts).s
         ELSE Head(parts).s \o ", " \o JoinParts(Tail(parts))

\* extractAddress(obj) (lines 466-482): reading obj.address throws on null.
extractAddress(obj) ==
    IF obj.k \in {"null", "undefined"} THEN [NoAddr EXCEPT !.threw = TRUE]
    ELSE LET address == Get(obj, "address")
         IN  IF ~Truthy(address) THEN NoAddr
             ELSE IF address.k = "str" /\ Len(address.s) > 15
                  THEN [NoAddr EXCEPT !.found = TRUE, !.text = address.s]
                  ELSE IF Truthy(Get(address, "streetAddress"))
                       THEN LET parts == SelectSeq(
                                    <<Get(address, "streetAddress"),
                                      Get(address, "addressLocality"),
                                      Get(address, "addressRegion"),
                                      Get(address, "postalCode")>>, Truthy)
                            IN  [NoAddr EXCEPT !.found = TRUE, !.text = JoinParts(parts)]
                       ELSE NoAddr

\* for (const item of schema['@graph']) { addr = extractAddress(item); if (addr) break; }
RECURSIVE GraphAddress(_)
GraphAddressStep(a, rest) ==
    IF a.threw \/ (a.found /\ a.text # "") THEN a ELSE GraphAddress(rest)

GraphAddress(items) ==
    IF items = <<>> THEN NoAddr
    ELSE GraphAddressStep(extractAddress(Head(items)), Tail(items))

\* The body of the try block of lines 462-500 for one script: the address
\* it yields, none when it throws or yields 15 characters or fewer.
\* if (addr && addr.length > 15) (line 494), and the catch of line 501.
AcceptAddress(addr) ==
    IF ~addr.threw /\ addr.found /\ Len(addr.text) > 15 THEN addr ELSE NoAddr

ScriptAddress(script) ==
    IF script.body # "json" THEN NoAddr
    ELSE LET schema == script.value
             graph == Get(schema, "@graph")
         IN  AcceptAddress(
                 IF schema.k = "null" THEN [NoAddr EXCEPT !.threw = TRUE]
                 ELSE IF Truthy(graph)
                      THEN IF graph.k = "arr" THEN GraphAddress(graph.items)
                           ELSE IF graph.k = "str" THEN NoAddr
                                ELSE [NoAddr EXCEPT !.threw = TRUE]
                      ELSE extractAddress(schema))

\* ldJsonScripts.each stops at the first script that yields an address.
RECURSIVE SchemaAddress(_)
SchemaAddressStep(a, rest) == IF a.found THEN a ELSE SchemaAddress(rest)

SchemaAddress(scripts) ==
    IF scripts = <<>> THEN NoAddr
    ELSE SchemaAddressStep(ScriptAddress(Head(scripts)), Tail(scripts))

\* addressCandidates (lines 509-547), in the order they are pushed.
AddressCandidatesOf(page) ==
    LET tag(texts, source) == [i \in 1..Len(texts) |-> [text |-> texts[i], source |-> source]]
        inRange(t) == Len(t) > 15 /\ Len(t) < 200
    IN  tag(page.usMatches, "US address pattern")
        \o tag(page.poBoxMatches, "PO Box pattern")
        \o tag(SelectSeq(page.microdataTexts, inRange), "Microdata itemprop")
        \o tag(SelectSeq(page.selectorTexts, LAMBDA t : inRange(t) /\ HasDigit(t)),
               "CSS selector")

AddressFrom(schemaAddr, addressCandidates) ==
        IF schemaAddr.found
        THEN [hasAddress |-> TRUE, addressText |-> schemaAddr.text,
              addressSource |-> "Schema.org"]
        ELSE IF Len(addressCandidates) > 0
             THEN [hasAddress |-> TRUE, addressText |-> addressCandidates[1].text,
                   addressSource |-> addressCandidates[1].source]
             ELSE [hasAddress |-> FALSE, addressText |-> "", addressSource |-> ""]

AddressOf(page) == AddressFrom(SchemaAddress(page.ldJson), AddressCandidatesOf(page))

\* localSEO (lines 841-847); hasPhone is validPhone !== null.
LocalSEOFrom(technicalSEO, phoneMatches, address) ==
    [hasLocalBusinessSchema |-> technicalSEO.hasLocalBusinessSchema,
     hasPhone |-> Len(phoneMatches) > 0,
     phoneNumber |-> IF Len(phoneMatches) > 0 THEN phoneMatches[1].value ELSE "",
     hasAddress |-> address.hasAddress,
     addressText |-> address.addressText]

LocalSEOOf(page, technicalSEO) ==
    LocalSEOFrom(technicalSEO, PhoneMatchesOf(page), AddressOf(page))

(***************************************************************************)
(* Lines 574-788: the 100-point scoring system.  A rule yields the points  *)
(* it adds to its category and the entries it pushes to                    *)
(* scoreBreakdown.details; an entry is the pushed string, held as its      *)
(* text, the "+N" it ends with, and the rule that pushed it.               *)
(***************************************************************************)
Entry(rule, text, plus) == [rule |-> rule, text |-> text, plus |-> plus]
Award(pts, details) == [pts |-> pts, details |-> details]

\* A faulty variant of TitleRule: the 50-60 band is tested with strict inequalities.
TitleRuleStrictBounds(metaTags) ==
    IF metaTags.hasTitle
    THEN IF metaTags.titleLength > 50 /\ metaTags.titleLength < 60
         THEN Award(12, <<Entry("title", "Title Tag Perfect", 12)>>)
         ELSE IF metaTags.titleLength >= 30 /\ metaTags.titleLength <= 70
              THEN Award(4, <<Entry("title", "Title Tag Acceptable", 4)>>)
              ELSE Award(1, <<Entry("title", "Title Tag Poor", 1)>>)
    ELSE Award(0, <<Entry("title", "CRITICAL: Missing Title Tag", 0)>>)

\* Title Tag (lines 585-599).
TitleRule(metaTags) ==
    IF metaTags.hasTitle
    THEN IF metaTags.titleLength >= 50 /\ metaTags.titleLength <= 60
         THEN Award(12, <<Entry("title", "Title Tag Perfect", 12)>>)
         ELSE IF metaTags.titleLength >= 30 /\ metaTags.titleLength <= 70
              THEN Award(4, <<Entry("title", "Title Tag Acceptable", 4)>>)
              ELSE Award(1, <<Entry("title", "Title Tag Poor", 1)>>)
    ELSE Award(0, <<Entry("title", "CRITICAL: Missing Title Tag", 0)>>)

\* Meta Description (lines 601-615).
DescriptionRule(metaTags) ==
    IF metaTags.hasDescription
    THEN IF metaTags.descriptionLength >= 120 /\ metaTags.descriptionLength <= 160
         THEN Award(8, <<Entry("description", "Meta Description Perfect", 8)>>)
         ELSE IF metaTags.descriptionLength >= 50 /\ metaTags.descriptionLength <= 200
              THEN Award(2, <<Entry("description", "Meta Description Acceptable", 2)>>)
              ELSE Award(1, <<Entry("description", "Meta Description Poor", 1)>>)
    ELSE Award(0, <<Entry("description", "Missing Meta Description", 0)>>)

\* A faulty variant of H1Rule: any page with an H1 of 20 characters gets the full
\* points, however many H1 it has.
H1RuleAnyCount(headings) ==
    IF headings.h1Count >= 1
    THEN IF Len(headings.h1Text) > 0 /\ headings.h1Text[1] >= 20
         THEN Award(8, <<Entry("h1", "Perfect H1", 8)>>)
         ELSE Award(1, <<Entry("h1", "H1 Too Short", 1)>>)
    ELSE Award(0, <<Entry("h1", "Missing H1 Tag", 0)>>)

\* H1 Tag (lines 617-631).
H1Rule(headings) ==
    IF headings.h1Count = 1
    THEN IF Len(headings.h1Text) > 0 /\ headings.h1Text[1] >= 20
         THEN Award(8, <<Entry("h1", "Perfect H1", 8)>>)
         ELSE Award(1, <<Entry("h1", "H1 Too Short", 1)>>)
    ELSE IF headings.h1Count > 1
         THEN Award(1, <<Entry("h1", "Multiple H1 Tags", 1)>>)
         ELSE Award(0, <<Entry("h1", "Missing H1 Tag", 0)>>)

\* H2-H6 Headings (lines 633-642).
HeadingRule(headings) ==
    IF headings.h2Count >= 3 /\ (headings.h3Count >= 2 \/ headings.h4Count >= 1)
    THEN Award(5, <<Entry("headings", "Excellent Heading Hierarchy", 5)>>)
    ELSE IF headings.h2Count >= 2
         THEN Award(2, <<Entry("headings", "Basic Heading Structure", 2)>>)
         ELSE Award(0, <<Entry("headings", "Poor Heading Structure", 0)>>)

\* A faulty variant of ImageAltRule: the 100% case is missing, full coverage falls
\* into the 80% band.
ImageAltRuleNoFullBand(imagesData) ==
    IF imagesData.total > 0
    THEN IF imagesData.altPercentage >= 80
         THEN Award(2, <<Entry("alt", "Most Images Have Alt", 2)>>)
         ELSE IF imagesData.altPercentage >= 50
              THEN Award(1, <<Entry("alt", "Only Some Images Have Alt", 1)>>)
              ELSE Award(0, <<Entry("alt", "Few Images Have Alt", 0)>>)
    ELSE Award(2, <<Entry("alt", "No Images Found", 2)>>)

\* Image Alt Text (lines 644-661).
ImageAltRule(imagesData) ==
    IF imagesData.total > 0
    THEN IF imagesData.altPercentage = 100
         THEN Award(4, <<Entry("alt", "All Images Have Alt Text (100%)", 4)>>)
         ELSE IF imagesData.altPercentage >= 80
              THEN Award(2, <<Entry("alt", "Most Images Have Alt", 2)>>)
              ELSE IF imagesData.altPercentage >= 50
                   THEN Award(1, <<Entry("alt", "Only Some Images Have Alt", 1)>>)
                   ELSE Award(0, <<Entry("alt", "Few Images Have Alt", 0)>>)
    ELSE Award(2, <<Entry("alt", "No Images Found", 2)>>)

\* Content Quality (lines 663-678).
ContentRule(content) ==
    IF content.wordCount >= 1000
    THEN Award(8, <<Entry("content", "Excellent Content Length", 8)>>)
    ELSE IF content.wordCount >= 500
         THEN Award(3, <<Entry("content", "Content Too Short", 3)>>)
         ELSE IF content.wordCount >= 300
              THEN Award(1, <<Entry("content", "Very Low Content", 1)>>)
              ELSE IF content.wordCount >= 50
                   THEN Award(1, <<Entry("content", "Minimal Content", 1)>>)
                   ELSE Award(0, <<Entry("content", "Almost No Content", 0)>>)

\* SSL (lines 685-691).
SSLRule(technicalSEO) ==
    IF technicalSEO.hasSSL
    THEN Award(5, <<Entry("ssl", "HTTPS Enabled", 5)>>)
    ELSE Award(0, <<Entry("ssl", "No HTTPS", 0)>>)

\* A faulty variant of RobotsRule: the second addition has no entry.
RobotsRuleUnstatedPoints(technicalSEO) ==
    IF technicalSEO.hasRobotsTxt
    THEN Award(3 + 2, <<Entry("robots", "robots.txt Exists", 3)>>)
    ELSE Award(0, <<Entry("robots", "No robots.txt", 0)>>)

\* robots.txt (lines 693-701): two additions, two entries.
RobotsRule(technicalSEO) ==
    IF technicalSEO.hasRobotsTxt
    THEN Award(3 + 2, <<Entry("robots", "robots.txt Exists", 3),
                        Entry("robots", "robots.txt Proper Rules", 2)>>)
    ELSE Award(0, <<Entry("robots", "No robots.txt", 0)>>)

\* A faulty variant of SitemapRule: a single entry of 5 points when present.
SitemapRuleOneEntry(technicalSEO) ==
    IF technicalSEO.hasSitemap
    THEN Award(5, <<Entry("sitemap", "XML Sitemap Exists", 5)>>)
    ELSE Award(0, <<Entry("sitemap", "No XML Sitemap", 0)>>)

\* XML Sitemap (lines 703-711): two additions, two entries.
SitemapRule(technicalSEO) ==
    IF technicalSEO.hasSitemap
    THEN Award(3 + 2, <<Entry("sitemap", "XML Sitemap Exists", 3),
                        Entry("sitemap", "Sitemap Accessible", 2)>>)
    ELSE Award(0, <<Entry("sitemap", "No XML Sitemap", 0)>>)

\* Analytics (lines 713-719).
AnalyticsRule(technicalSEO) ==
    IF technicalSEO.hasAnalytics
    THEN Award(3, <<Entry("analytics", "Analytics Installed", 3)>>)
    ELSE Award(0, <<Entry("analytics", "No Analytics", 0)>>)

\* Schema (lines 721-732).
SchemaRule(technicalSEO) ==
    IF technicalSEO.hasSchema
    THEN IF technicalSEO.hasJsonLd
         THEN Award(12, <<Entry("schema", "CRITICAL: Schema.org with Valid JSON-LD", 12)>>)
         ELSE Award(4, <<Entry("schema", "Schema Present but NOT JSON-LD", 4)>>)
    ELSE Award(0, <<Entry("schema", "CRITICAL: No Schema.org Structured Data", 0)>>)

\* Phone (lines 740-745).
PhoneRule(localSEO) ==
    IF localSEO.hasPhone
    THEN Award(3, <<Entry("phone", "Phone Number Found", 3)>>)
    ELSE Award(0, <<Entry("phone", "No Phone Number", 0)>>)

\* Address (lines 747-752).
AddressRule(localSEO) ==
    IF localSEO.hasAddress
    THEN Award(4, <<Entry("address", "Address Found", 4)>>)
    ELSE Award(0, <<Entry("address", "No Address", 0)>>)

\* Local Business Schema (lines 754-760).
LocalBusinessRule(localSEO) ==
    IF localSEO.hasLocalBusinessSchema
    THEN Award(8, <<Entry("localBusiness", "CRITICAL: Local Business Schema Present", 8)>>)
    ELSE Award(0, <<Entry("localBusiness", "CRITICAL: No Local Business Schema", 0)>>)

\* socialLinksCount (lines 768-773).
SocialLinksCount(social) ==
    (IF social.hasFacebookPage THEN 1 ELSE 0) + (IF social.hasInstagram THEN 1 ELSE 0)
    + (IF social.hasTwitter THEN 1 ELSE 0) + (IF social.hasLinkedIn THEN 1 ELSE 0)
    + (IF social.hasYouTube THEN 1 ELSE 0)

\* Social Links (lines 775-783).
SocialRule(social) ==
    IF SocialLinksCount(social) >= 2
    THEN Award(10, <<Entry("social", "Multiple Social Links", 10)>>)
    ELSE IF SocialLinksCount(social) = 1
         THEN Award(5, <<Entry("social", "One Social Link", 5)>>)
         ELSE Award(0, <<Entry("social", "No Social Links", 0)>>)

\* The rules of each category, in the order the code evaluates them.
OnPageAwards(f) ==
    <<TitleRule(f.metaTags), DescriptionRule(f.metaTags), H1Rule(f.headings),
      HeadingRule(f.headings), ImageAltRule(f.imagesData), ContentRule(f.content)>>

TechnicalAwards(technicalSEO) ==
    <<SSLRule(technicalSEO), RobotsRule(technicalSEO), SitemapRule(technicalSEO),
      AnalyticsRule(technicalSEO), SchemaRule(technicalSEO)>>

LocalAwards(localSEO) ==
    <<PhoneRule(localSEO), AddressRule(localSEO), LocalBusinessRule(localSEO)>>

SocialAwards(social) == <<SocialRule(social)>>

Points(awards) == SumSeq([i \in 1..Len(awards) |-> awards[i].pts])
Details(awards) == Flatten([i \in 1..Len(awards) |-> awards[i].details])

\* scoreBreakdown (lines 574-785).
ScoreBreakdownOf(f, technicalSEO, localSEO, social) ==
    [onPage |-> Points(OnPageAwards(f)),
     technical |-> Points(TechnicalAwards(technicalSEO)),
     local |-> Points(LocalAwards(localSEO)),
     social |-> Points(SocialAwards(social)),
     details |-> Details(OnPageAwards(f)) \o Details(TechnicalAwards(technicalSEO))
                 \o Details(LocalAwards(localSEO)) \o Details(SocialAwards(social))]

\* A faulty variant of ScoreOf: the social category is left out of the sum.
ScoreOfWithoutSocial(scoreBreakdown) ==
    scoreBreakdown.onPage + scoreBreakdown.technical + scoreBreakdown.local

\* score (line 788).
ScoreOf(scoreBreakdown) ==
    scoreBreakdown.onPage + scoreBreakdown.technical + scoreBreakdown.local
    + scoreBreakdown.social

\* A faulty variant of GradeOf: every threshold is compared with > instead of >=.
GradeOfStrict(score) ==
    IF score > 90 THEN "A+"
    ELSE IF score > 85 THEN "A"
    ELSE IF score > 80 THEN "A-"
    ELSE IF score > 75 THEN "B+"
    ELSE IF score > 70 THEN "B"
    ELSE IF score > 65 THEN "B-"
    ELSE IF score > 60 THEN "C+"
    ELSE IF score > 55 THEN "C"
    ELSE IF score > 50 THEN "C-"
    ELSE IF score > 45 THEN "D+"
    ELSE IF score > 40 THEN "D"
    ELSE IF score > 35 THEN "D-"
    ELSE "F"

\* grade (lines 797-810).
GradeOf(score) ==
    IF score >= 90 THEN "A+"
    ELSE IF score >= 85 THEN "A"
    ELSE IF score >= 80 THEN "A-"
    ELSE IF score >= 75 THEN "B+"
    ELSE IF score >= 70 THEN "B"
    ELSE IF score >= 65 THEN "B-"
    ELSE IF score >= 60 THEN "C+"
    ELSE IF score >= 55 THEN "C"
    ELSE IF score >= 50 THEN "C-"
    ELSE IF score >= 45 THEN "D+"
    ELSE IF score >= 40 THEN "D"
    ELSE IF score >= 35 THEN "D-"
    ELSE "F"

(***************************************************************************)
(* Lines 849-1017: the recommendation list, in generation order.           *)
(***************************************************************************)
Rec(rule, title, category, priority) ==
    [rule |-> rule, title |-> title, category |-> category, priority |-> priority]

\* A faulty variant of RecommendationsOf: the social entries come first and
\* the missing-title entry is pushed twice.
RecommendationsSocialFirst(f, technicalSEO, localSEO, social) ==
    (IF ~social.hasFacebookPage
     THEN <<Rec("facebook", "Create and link your Facebook Page", "Social", "Low Priority")>>
     ELSE <<>>)
    \o (IF ~f.metaTags.hasTitle
        THEN <<Rec("title", "Add a Title Tag to your page", "On-Page SEO", "High Priority"),
               Rec("title", "Add a Title Tag to your page", "On-Page SEO", "High Priority")>>
        ELSE <<>>)
    \o (IF ~technicalSEO.hasRobotsTxt
        THEN <<Rec("robots", "Create a robots.txt file", "Technical SEO", "Medium Priority")>>
        ELSE <<>>)
    \o (IF ~localSEO.hasPhone
        THEN <<Rec("phone", "Add Phone Number to Website", "Local SEO", "Medium Priority")>>
        ELSE <<>>)

RecommendationsOf(f, technicalSEO, localSEO, social) ==
    LET metaTags == f.metaTags
        headings == f.headings
        imagesData == f.imagesData
        content == f.content
        when(cond, rec) == IF cond THEN <<rec>> ELSE <<>>
    IN  (IF ~metaTags.hasTitle
         THEN <<Rec("title", "Add a Title Tag to your page", "On-Page SEO", "High Priority")>>
         ELSE IF metaTags.titleLength < 50 \/ metaTags.titleLength > 60
              THEN IF metaTags.titleLength < 50
                   THEN <<Rec("title", "Increase Title Tag length", "On-Page SEO",
                              "High Priority")>>
                   ELSE <<Rec("title", "Shorten Title Tag length", "On-Page SEO",
                              "High Priority")>>
              ELSE <<>>)
        \o (IF ~metaTags.hasDescription
            THEN <<Rec("description", "Add a Meta Description to your page", "On-Page SEO",
                       "High Priority")>>
            ELSE IF metaTags.descriptionLength < 120 \/ metaTags.descriptionLength > 160
                 THEN IF metaTags.descriptionLength < 120
                      THEN <<Rec("description", "Increase Meta Description length",
                                 "On-Page SEO", "High Priority")>>
                      ELSE <<Rec("description", "Shorten Meta Description length",
                                 "On-Page SEO", "High Priority")>>
                 ELSE <<>>)
        \o (IF headings.h1Count = 0
            THEN <<Rec("h1", "Add exactly one H1 Header Tag to your page", "On-Page SEO",
                       "High Priority")>>
            ELSE IF headings.h1Count > 1
                 THEN <<Rec("h1", "Reduce H1 tags to exactly 1", "On-Page SEO",
                            "High Priority")>>
                 ELSE <<>>)
        \o when(headings.h2Count < 2,
                Rec("headings", "Add more H2-H6 heading tags to improve content structure",
                    "On-Page SEO", "Medium Priority"))
        \o when(imagesData.total > 0 /\ imagesData.altPercentage < 100,
                Rec("alt", "Add Alt Attributes to images", "On-Page SEO", "Medium Priority"))
        \o when(content.wordCount < 300,
                Rec("content", "Increase content length to at least 300 words",
                    "On-Page SEO", "Medium Priority"))
        \o when(~technicalSEO.hasRobotsTxt,
                Rec("robots", "Create a robots.txt file", "Technical SEO", "Medium Priority"))
        \o when(~technicalSEO.hasSitemap,
                Rec("sitemap", "Create an XML Sitemap", "Technical SEO", "Medium Priority"))
        \o when(~technicalSEO.hasAnalytics,
                Rec("analytics", "Implement an Analytics Tracking Tool", "Technical SEO",
                    "Low Priority"))
        \o when(~technicalSEO.hasSchema,
                Rec("schema", "Add Schema.org Structured Data", "Technical SEO",
                    "Medium Priority"))
        \o when(~technicalSEO.hasIdentitySchema,
                Rec("identity", "Add Identity Schema (Organization or Person)",
                    "Technical SEO", "Medium Priority"))
        \o when(~localSEO.hasPhone,
                Rec("phone", "Add Phone Number to Website", "Local SEO", "Medium Priority"))
        \o when(~localSEO.hasAddress,
                Rec("address", "Add Address Information to Website", "Local SEO",
                    "Medium Priority"))
        \o when(~localSEO.hasLocalBusinessSchema,
                Rec("localBusiness", "Add Local Business Schema", "Local SEO", "Low Priority"))
        \o when(~social.hasFacebookPage,
                Rec("facebook", "Create and link your Facebook Page", "Social",
                    "Low Priority"))
        \o when(~social.hasInstagram,
                Rec("instagram", "Create and link an associated Instagram Profile", "Social",
                    "Low Priority"))

(***************************************************************************)
(* Lines 234-1042: everything the invocation computes after the sitemap    *)
(* probe has answered, up to the object it returns.                        *)
(***************************************************************************)
\* performance (lines 564-568): the time page.goto took, as measured by
\* the two Date.now() calls of lines 31 and 41.
PerformanceOf(t) == [loadTime |-> t]

\* The returned object (lines 1022-1042).
Returned(u, f, technicalSEO, social, localSEO, performance, scoreBreakdown, recommendations) ==
    [url |-> u,
     score |-> ScoreOf(scoreBreakdown),
     grade |-> GradeOf(ScoreOf(scoreBreakdown)),
     scoreBreakdown |-> scoreBreakdown,
     metaTags |-> f.metaTags,
     headings |-> f.headings,
     images |-> f.imagesData,
     links |-> f.linksData,
     performance |-> performance,
     content |-> f.content,
     technicalSEO |-> technicalSEO,
     social |-> social,
     localSEO |-> localSEO,
     recommendations |-> recommendations]

Scored(u, f, technicalSEO, social, localSEO, performance) ==
    Returned(u, f, technicalSEO, social, localSEO, performance,
             ScoreBreakdownOf(f, technicalSEO, localSEO, social),
             RecommendationsOf(f, technicalSEO, localSEO, social))

Detected(page, u, f, technicalSEO, performance) ==
    Scored(u, f, technicalSEO, SocialOf(page), LocalSEOOf(page, technicalSEO), performance)

AnalysisOf(page, f, u, robots, sitemap, performance) ==
    Detected(page, u, f, TechnicalSEOOf(page, u, robots, sitemap), performance)

(***************************************************************************)
(* The pages the model renders.                                            *)
(***************************************************************************)
MaxH1 == 2       \* h1 elements per page
MaxImgs == 3     \* img elements per page, all alt combinations
MaxLinks == 2    \* a[href] elements per page, all href combinations

\* A page with nothing on it.
BasePage ==
    [title |-> 0, description |-> 0, h1 |-> <<>>, h2 |-> 0, h3 |-> 0, h4 |-> 0,
     imgs |-> <<>>, words |-> 0, links |-> <<>>, ogUrl |-> "", signatures |-> {},
     ldJson |-> <<>>, attrs |-> {}, phoneMatches |-> <<<<>>, <<>>, <<>>, <<>>>>,
     telLinks |-> <<>>, usMatches |-> <<>>, poBoxMatches |-> <<>>,
     microdataTexts |-> <<>>, selectorTexts |-> <<>>,
     itemscopes |-> <<>>, typeofs |-> <<>>]

\* n img elements, the first k with alt text, the others with no alt.
AltRun(n, k) == [i \in 1..n |-> IF i <= k THEN "Logo" ELSE "absent"]

TitleLengths == {0, 1, 29, 30, 49, 50, 55, 60, 61, 70, 71}
DescriptionLengths == {0, 1, 49, 50, 119, 120, 140, 160, 161, 200, 201}
H1Lists == SeqsUpTo({0, 19, 20, 25}, MaxH1)
ImageLists ==
    SeqsUpTo({"absent", "", " ", "Logo"}, MaxImgs)
    \cup {AltRun(5, 4), AltRun(10, 10), AltRun(10, 8), AltRun(10, 7), AltRun(44, 35),
          AltRun(101, 50), AltRun(200, 199), AltRun(200, 200)}
WordCounts == {0, 1, 49, 50, 299, 300, 499, 500, 999, 1000}
Hrefs ==
    {"https://www.facebook.com/acme", "https://www.instagram.com/acme",
     "https://twitter.com/acme", "https://x.com/acme",
     "https://www.linkedin.com/company/acme", "https://www.youtube.com/@acme",
     "https://www.netflix.com/browse", "/about", "https://example.com/contact",
     "https://partner.org/", "#top", "tel:+15550100"}
LinkLists == SeqsUpTo(Hrefs, MaxLinks)
OgUrls == {"", "https://www.facebook.com/acme.page", "https://example.com/contact"}
SignatureSets == {{}, {"gtag("}, {"fbq("}, {"googletagmanager.com/gtag/js", "gtag("}}
AttrSets == {{}, {"itemtype"}, {"itemscope"}, {"itemscope", "itemtype"}, {"vocab"}, {"typeof"}}

\* JSON-LD payloads.
PostalAddress ==
    JObj(<<Field("@type", JStr("PostalAddress")),
           Field("streetAddress", JStr("12 Elm Road")),
           Field("addressLocality", JStr("Springfield")),
           Field("addressRegion", JStr("IL")),
           Field("postalCode", JStr("62701"))>>)
OrganizationDoc ==
    JObj(<<Field("@context", JStr("https://schema.org")),
           Field("@type", JStr("Organization")), Field("name", JStr("Acme"))>>)
LocalBusinessDoc ==
    JObj(<<Field("@context", JStr("https://schema.org")),
           Field("@type", JStr("LocalBusiness")), Field("address", PostalAddress)>>)
GraphDoc ==
    JObj(<<Field("@context", JStr("https://schema.org")),
           Field("@graph", JArr(<<JObj(<<Field("@type", JStr("WebSite"))>>),
                                  JObj(<<Field("@type", JArr(<<JStr("Person"),
                                                               JStr("Organization")>>))>>),
                                  JObj(<<Field("@type", JStr("Restaurant")),
                                         Field("address",
                                               JStr("12 Elm Road, Springfield, IL 62701"))>>)>>))>>)
ArticleDoc ==
    JObj(<<Field("@type", JStr("Article")),
           Field("author", JObj(<<Field("@type", JStr("Person"))>>)),
           Field("offers", JArr(<<JObj(<<Field("@type", JStr("Offer"))>>), JNull>>))>>)
NumberTypeDoc ==
    JObj(<<Field("@type", JNum(5)),
           Field("publisher", JObj(<<Field("@type", JStr("Organization"))>>))>>)
NestedAddressDoc ==
    JObj(<<Field("@context", JStr("https://schema.org")),
           Field("@type", JStr("Organization")),
           Field("location", JObj(<<Field("@type", JStr("Place")),
                                    Field("address", PostalAddress)>>))>>)
ShortAddressDoc ==
    JObj(<<Field("@type", JStr("LocalBusiness")),
           Field("address", JObj(<<Field("@type", JStr("PostalAddress")),
                                   Field("streetAddress", JStr("1 Elm St"))>>))>>)
GraphNumberDoc ==
    JObj(<<Field("@graph", JArr(<<JObj(<<Field("@type", JStr("WebPage"))>>),
                                  JObj(<<Field("@type", JNum(5))>>),
                                  JObj(<<Field("@type", JStr("Organization"))>>)>>))>>)
TypedGraphDoc ==
    JObj(<<Field("@type", JStr("WebSite")),
           Field("@graph", JArr(<<JObj(<<Field("@type", JStr("Organization"))>>)>>)),
           Field("publisher", JObj(<<Field("@type", JStr("Person"))>>))>>)
UntypedDoc == JObj(<<Field("name", JStr("Acme")), Field("address", JStr("12 Elm Road"))>>)
ArrayDoc == JArr(<<JObj(<<Field("@type", JStr("Store"))>>), JNull, JStr("x")>>)

ScriptLists ==
    {<<>>, <<EmptyScript>>, <<InvalidScript>>,
     <<JsonScript(UntypedDoc)>>, <<JsonScript(JNull)>>,
     <<JsonScript(OrganizationDoc)>>, <<JsonScript(LocalBusinessDoc)>>,
     <<JsonScript(GraphDoc)>>, <<JsonScript(ArticleDoc)>>,
     <<JsonScript(NumberTypeDoc)>>, <<JsonScript(ArrayDoc)>>,
     <<JsonScript(GraphNumberDoc)>>, <<JsonScript(OrganizationDoc), JsonScript(GraphDoc)>>,
     <<JsonScript(TypedGraphDoc)>>,
     <<InvalidScript, JsonScript(OrganizationDoc)>>,
     <<JsonScript(ArticleDoc), InvalidScript, JsonScript(LocalBusinessDoc)>>}

PhoneMatchLists ==
    {<<<<>>, <<>>, <<>>, <<>>>>,
     <<<<>>, <<"(555) 010-0100">>, <<>>, <<>>>>,
     <<<<"+1 555 010 0100">>, <<"555 010 0100">>, <<"+1 555 010 0100">>, <<"555 010 0100">>>>}
TelLinkLists == {<<>>, <<"Call us">>, <<"555-0100">>, <<"555-0100", "555-0199">>, <<"">>}
UsMatchLists == {<<>>, <<"12 Elm Road, Springfield IL 62701">>}
PoBoxMatchLists == {<<>>, <<"PO Box 12, Springfield IL 62701">>}
ElementTextLists ==
    {<<>>, <<"Elm Road">>, <<"12 Elm Road, Springfield 62701">>,
     <<"Our location is in Springfield">>}

\* One rule's input over its boundary values, everything else absent.
RulePages ==
    {[BasePage EXCEPT !.title = t] : t \in TitleLengths}
    \cup {[BasePage EXCEPT !.description = d] : d \in DescriptionLengths}
    \cup {[BasePage EXCEPT !.h1 = l] : l \in H1Lists}
    \cup {[BasePage EXCEPT !.h2 = a, !.h3 = b, !.h4 = c] : a \in 0..3, b \in 0..2, c \in 0..1}
    \cup {[BasePage EXCEPT !.imgs = l] : l \in ImageLists}
    \cup {[BasePage EXCEPT !.words = w] : w \in WordCounts}

TechnicalPages ==
    {[BasePage EXCEPT !.signatures = g, !.ldJson = j, !.attrs = a] :
        g \in SignatureSets, j \in ScriptLists, a \in AttrSets}

LocalPages ==
    {[BasePage EXCEPT !.phoneMatches = m, !.telLinks = t] :
        m \in PhoneMatchLists, t \in TelLinkLists}
    \cup {[BasePage EXCEPT !.ldJson = j, !.usMatches = u, !.poBoxMatches = b,
                           !.microdataTexts = m, !.selectorTexts = c] :
            j \in {<<>>, <<JsonScript(UntypedDoc)>>, <<JsonScript(LocalBusinessDoc)>>,
                   <<JsonScript(NestedAddressDoc)>>, <<JsonScript(ShortAddressDoc)>>,
                   <<InvalidScript, JsonScript(GraphDoc)>>},
            u \in UsMatchLists, b \in PoBoxMatchLists,
            m \in ElementTextLists, c \in ElementTextLists}

SocialPages ==
    {[BasePage EXCEPT !.links = l, !.ogUrl = o] : l \in LinkLists, o \in OgUrls}

\* The worked example of the specification (section 8).
ExamplePage ==
    [BasePage EXCEPT !.title = 55, !.h1 = <<25>>, !.imgs = AltRun(10, 10), !.words = 49]

\* A page on which every rule awards its maximum.
PerfectPage ==
    [BasePage EXCEPT !.title = 55, !.description = 140, !.h1 = <<25>>,
                     !.h2 = 3, !.h3 = 2, !.imgs = AltRun(10, 10), !.words = 1000,
                     !.links = <<"https://www.facebook.com/acme",
                                 "https://www.instagram.com/acme">>,
                     !.signatures = {"gtag("},
                     !.ldJson = <<JsonScript(LocalBusinessDoc)>>,
                     !.telLinks = <<"555-0100">>]

Pages == RulePages \cup TechnicalPages \cup LocalPages \cup SocialPages
         \cup {ExamplePage, PerfectPage}

Urls == {"example.com", "http://example.com", "https://example.com"}

\* The milliseconds a navigation may take.
LoadTimes == {120, 480}

(***************************************************************************)
(* One invocation of analyzeSEO.                                           *)
(***************************************************************************)
\* An invocation of validateSchema or generatePDF that was never made, and
\* no concurrent invocations.
VsIdle == [pc |-> "idle"]
PdfIdle == [pc |-> "idle"]
NoCalls == <<>>
WalkIdle == [pc |-> "idle"]
AltTagsIdle == [pc |-> "idle"]

InitAnalyzeSEO ==
    /\ pc = "start"
    /\ url \in Urls
    /\ browser = "unset"
    /\ closeCalls = 0
    /\ html = NoPage
    /\ facts = NoFacts
    /\ hasRobotsTxt = FALSE
    /\ hasSitemap = FALSE
    /\ result = NoResult
    /\ loadTime = 0

Init ==
    /\ InitAnalyzeSEO
    /\ vs = VsIdle
    /\ pdf = PdfIdle
    /\ calls = NoCalls
    /\ walk = WalkIdle
    /\ altTags = AltTagsIdle

\* Lines 8-26: the url gets its scheme, puppeteer.launch() resolves or rejects.
Launch ==
    /\ pc = "start"
    /\ url' = NormalizeUrl(url)
    /\ \/ browser' = "open" /\ pc' = "navigate"
       \/ browser' = browser /\ pc' = "catch"
    /\ UNCHANGED <<closeCalls, html, facts, hasRobotsTxt, hasSitemap, result, loadTime>>

\* Lines 28-41: newPage, setViewport, goto, and the time goto took.
Navigate ==
    /\ pc = "navigate"
    /\ \/ pc' = "screenshot" /\ loadTime' \in LoadTimes
       \/ pc' = "catch" /\ loadTime' = loadTime
    /\ UNCHANGED <<url, browser, closeCalls, html, facts, hasRobotsTxt, hasSitemap, result>>

\* Lines 43-56: the desktop and mobile screenshots.
Screenshot ==
    /\ pc = "screenshot"
    /\ pc' \in {"content", "catch"}
    /\ UNCHANGED <<url, browser, closeCalls, html, facts, hasRobotsTxt, hasSitemap, result, loadTime>>

\* Lines 58-68: page.content() delivers the rendered page, or rejects.
Content(pages) ==
    /\ pc = "content"
    /\ \/ \E page \in pages : html' = page /\ pc' = "close"
       \/ html' = html /\ pc' = "catch"
    /\ UNCHANGED <<url, browser, closeCalls, facts, hasRobotsTxt, hasSitemap, result, loadTime>>

\* Lines 70-218: browser.close() on the success path; when it resolves the
\* facts are read from the document and the robots.txt probe is sent.
CloseBrowser ==
    /\ pc = "close"
    /\ closeCalls' = closeCalls + 1
    /\ \/ browser' = "closed" /\ facts' = ExtractFacts(html) /\ pc' = "robots"
       \/ browser' = browser /\ facts' = facts /\ pc' = "catch"
    /\ UNCHANGED <<url, html, hasRobotsTxt, hasSitemap, result, loadTime>>

\* Lines 214-228: the robots.txt probe answers (a rejection counts as
\* absent), the sitemap probe is sent.
FetchRobots ==
    /\ pc = "robots"
    /\ hasRobotsTxt' \in BOOLEAN
    /\ pc' = "sitemap"
    /\ UNCHANGED <<url, browser, closeCalls, html, facts, hasSitemap, result, loadTime>>

\* Lines 229-1042: the sitemap probe answers and the invocation runs to its
\* return statement.
Analyze ==
    /\ pc = "sitemap"
    /\ \E ok \in BOOLEAN :
          /\ hasSitemap' = ok
          /\ result' = AnalysisOf(html, facts, url, hasRobotsTxt, ok, PerformanceOf(loadTime))
    /\ pc' = "returned"
    /\ UNCHANGED <<url, browser, closeCalls, html, facts, hasRobotsTxt, loadTime>>

\* Lines 1043-1055: the catch block closes the browser when it was launched
\* and rethrows.
Catch ==
    /\ pc = "catch"
    /\ IF browser # "unset"
       THEN closeCalls' = closeCalls + 1 /\ browser' = "closed"
       ELSE UNCHANGED <<closeCalls, browser>>
    /\ pc' = "thrown"
    /\ UNCHANGED <<url, html, facts, hasRobotsTxt, hasSitemap, result, loadTime>>

Next ==
    \/ Launch /\ UNCHANGED others
    \/ Navigate /\ UNCHANGED others
    \/ Screenshot /\ UNCHANGED others
    \/ Content(Pages) /\ UNCHANGED others
    \/ CloseBrowser /\ UNCHANGED others
    \/ FetchRobots /\ UNCHANGED others
    \/ Analyze /\ UNCHANGED others
    \/ Catch /\ UNCHANGED others

Spec == Init /\ [][Next]_vars

(***************************************************************************)
(* A second page set: one representative of every outcome of every on-page *)
(* rule, in every combination, and every combination of the outcomes of    *)
(* the technical, local and social rules on an empty and on a perfect      *)
(* on-page part.                                                           *)
(***************************************************************************)
OnPageProductPages ==
    {[BasePage EXCEPT !.title = t, !.description = d, !.h1 = l, !.h2 = hh[1],
                      !.h3 = hh[2], !.imgs = i, !.words = w] :
        t \in {0, 20, 40, 55}, d \in {0, 30, 100, 140},
        l \in {<<>>, <<10>>, <<25>>, <<25, 25>>},
        hh \in {<<0, 0>>, <<2, 0>>, <<3, 2>>},
        i \in {<<>>, AltRun(2, 2), AltRun(5, 4), AltRun(2, 1), AltRun(1, 0)},
        w \in {0, 50, 500, 1000}}

OffPageProductPages ==
    {[p EXCEPT !.signatures = g, !.ldJson = j[1], !.attrs = j[2], !.telLinks = t,
               !.usMatches = u, !.links = l] :
        p \in {BasePage, PerfectPage},
        g \in {{}, {"gtag("}},
        j \in {<<<<>>, {}>>, <<<<>>, {"itemtype"}>>, <<<<JsonScript(OrganizationDoc)>>, {}>>,
               <<<<JsonScript(GraphDoc)>>, {}>>},
        t \in {<<>>, <<"555-0100">>},
        u \in UsMatchLists,
        l \in {<<>>, <<"https://x.com/acme">>,
               <<"https://www.facebook.com/acme", "https://www.youtube.com/@acme">>}}

ProductPages == OnPageProductPages \cup OffPageProductPages \cup {PerfectPage}

NextProduct ==
    \/ Launch /\ UNCHANGED others
    \/ Navigate /\ UNCHANGED others
    \/ Screenshot /\ UNCHANGED others
    \/ Content(ProductPages) /\ UNCHANGED others
    \/ CloseBrowser /\ UNCHANGED others
    \/ FetchRobots /\ UNCHANGED others
    \/ Analyze /\ UNCHANGED others
    \/ Catch /\ UNCHANGED others

SpecProduct == Init /\ [][NextProduct]_vars

(***************************************************************************)
(* validateSchema (schema-validator.js lines 14-130) and the extractors it *)
(* calls.  page.itemscopes lists the [itemscope] elements with their       *)
(* itemtype attribute ("" when absent) and the number of itemprop names    *)
(* found below them; page.typeofs lists the [typeof] elements likewise.    *)
(***************************************************************************)
\* One iteration of jsonLdScripts.each (lines 142-169): the schemas the
\* script pushes, none when the body is empty or when the try block throws
\* (JSON.parse fails, parsed is null, or @graph cannot be spread).  A
\* string-valued @graph, which spreads into characters, is not among the
\* payloads of this model.
JsonLdOfScript(script) ==
    IF script.body # "json" \/ script.value.k = "null" THEN <<>>
    ELSE IF Truthy(Get(script.value, "@graph"))
         THEN (IF Get(script.value, "@graph").k = "arr"
               THEN Get(script.value, "@graph").items ELSE <<>>)
         ELSE IF script.value.k = "arr" THEN script.value.items ELSE <<script.value>>

\* extractJsonLd (lines 135-174).
extractJsonLd(scripts) ==
    Flatten([i \in 1..Len(scripts) |-> JsonLdOfScript(scripts[i])])

\* extractMicrodata (lines 179-214): elements without properties are dropped.
extractMicrodata(page) ==
    [i \in 1..Len(SelectSeq(page.itemscopes, LAMBDA e : e.props > 0)) |->
        [type |-> IF SelectSeq(page.itemscopes, LAMBDA e : e.props > 0)[i].itemtype = ""
                  THEN "Unknown"
                  ELSE SelectSeq(page.itemscopes, LAMBDA e : e.props > 0)[i].itemtype,
         properties |-> SelectSeq(page.itemscopes, LAMBDA e : e.props > 0)[i].props]]

\* extractRdfa (lines 219-252).
extractRdfa(page) ==
    [i \in 1..Len(SelectSeq(page.typeofs, LAMBDA e : e.props > 0)) |->
        [type |-> IF SelectSeq(page.typeofs, LAMBDA e : e.props > 0)[i].typeof = ""
                  THEN "Unknown"
                  ELSE SelectSeq(page.typeofs, LAMBDA e : e.props > 0)[i].typeof,
         properties |-> SelectSeq(page.typeofs, LAMBDA e : e.props > 0)[i].props]]

\* allTypes.add over a list of values: a Set keeps the first of equal
\* strings and numbers.
RECURSIVE AddAll(_, _)
AddAll(types, values) ==
    IF values = <<>> THEN types
    ELSE AddAll(IF Contains(types, Head(values)) THEN types ELSE Append(types, Head(values)),
                Tail(values))

\* The types the summary adds for one JSON-LD schema (lines 91-94).
SummaryTypesOf(schema) ==
    IF Truthy(Get(schema, "@type"))
    THEN (IF Get(schema, "@type").k = "arr" THEN Get(schema, "@type").items
          ELSE <<Get(schema, "@type")>>)
    ELSE <<>>

\* schema['@type'] (line 91) throws on a schema that is null.
SummaryThrows(jsonLd) == \E i \in 1..Len(jsonLd) : jsonLd[i].k \in {"null", "undefined"}

\* results (lines 61-119), without the timestamp of line 63.
ValidationFrom(u, jsonLd, microdata, rdfa) ==
    [url |-> u,
     schemas |-> [jsonLd |-> jsonLd, microdata |-> microdata, rdfa |-> rdfa],
     summary |->
        [totalSchemas |-> Len(jsonLd) + Len(microdata) + Len(rdfa),
         types |-> AddAll(AddAll(AddAll(<<>>,
                        Flatten([i \in 1..Len(jsonLd) |-> SummaryTypesOf(jsonLd[i])])),
                        [i \in 1..Len(microdata) |-> JStr(microdata[i].type)]),
                        [i \in 1..Len(rdfa) |-> JStr(rdfa[i].type)]),
         hasSchema |-> Len(jsonLd) + Len(microdata) + Len(rdfa) > 0]]

ValidationOf(page, u) ==
    ValidationFrom(u, extractJsonLd(page.ldJson), extractMicrodata(page), extractRdfa(page))

\* The pages validateSchema renders.
ItemscopeLists ==
    {<<>>, <<[itemtype |-> "https://schema.org/Product", props |-> 2]>>,
     <<[itemtype |-> "", props |-> 1], [itemtype |-> "https://schema.org/Person", props |-> 0]>>}
TypeofLists ==
    {<<>>, <<[typeof |-> "Organization", props |-> 1]>>, <<[typeof |-> "", props |-> 0]>>}

AttrsOf(itemscopes, typeofs) ==
    (IF itemscopes # <<>> THEN {"itemscope"} ELSE {})
    \cup (IF \E i \in 1..Len(itemscopes) : itemscopes[i].itemtype # ""
          THEN {"itemtype"} ELSE {})
    \cup (IF typeofs # <<>> THEN {"typeof"} ELSE {})

ValidatorPages ==
    {[BasePage EXCEPT !.ldJson = j, !.itemscopes = m, !.typeofs = r, !.attrs = AttrsOf(m, r)] :
        j \in ScriptLists, m \in ItemscopeLists, r \in TypeofLists}

VsStart(u) ==
    [pc |-> "start", url |-> u, browser |-> "unset", closeCalls |-> 0, html |-> NoPage,
     result |-> NoResult]

\* Lines 21-38: the url gets its scheme, puppeteer.launch() resolves or rejects.
VsLaunch ==
    /\ vs.pc = "start"
    /\ \/ vs' = [vs EXCEPT !.url = NormalizeUrl(@), !.browser = "open", !.pc = "navigate"]
       \/ vs' = [vs EXCEPT !.url = NormalizeUrl(@), !.pc = "catch"]

\* Lines 40-49: newPage, setViewport, goto with its 30 s timeout.
VsNavigate ==
    /\ vs.pc = "navigate"
    /\ \/ vs' = [vs EXCEPT !.pc = "content"]
       \/ vs' = [vs EXCEPT !.pc = "catch"]

\* Lines 51-53: page.content().
VsContent(pages) ==
    /\ vs.pc = "content"
    /\ \/ \E page \in pages : vs' = [vs EXCEPT !.html = page, !.pc = "close"]
       \/ vs' = [vs EXCEPT !.pc = "catch"]

\* Lines 55-121: browser.close(); when it resolves the schemas are extracted
\* and summarised, and the results are returned unless the summary throws.
VsClose ==
    /\ vs.pc = "close"
    /\ \/ vs' = [vs EXCEPT !.closeCalls = @ + 1, !.browser = "closed",
                           !.result = IF SummaryThrows(extractJsonLd(vs.html.ldJson))
                                      THEN NoResult ELSE ValidationOf(vs.html, vs.url),
                           !.pc = IF SummaryThrows(extractJsonLd(vs.html.ldJson))
                                  THEN "catch" ELSE "returned"]
       \/ vs' = [vs EXCEPT !.closeCalls = @ + 1, !.pc = "catch"]

\* A faulty variant of VsCatch: the error is rethrown without closing.
VsCatchWithoutClose ==
    /\ vs.pc = "catch"
    /\ vs' = [vs EXCEPT !.pc = "thrown"]

\* Lines 123-130: the catch block closes the browser when it was launched
\* and throws.
VsCatch ==
    /\ vs.pc = "catch"
    /\ vs' = [vs EXCEPT !.closeCalls = IF vs.browser # "unset" THEN @ + 1 ELSE @,
                        !.browser = IF vs.browser # "unset" THEN "closed" ELSE @,
                        !.pc = "thrown"]

(***************************************************************************)
(* generatePDF (part_003 lines 15-80): try / catch / finally around the    *)
(* browser session; outcome is what the function does once the finally     *)
(* block has run.                                                          *)
(***************************************************************************)
PdfStart == [pc |-> "start", browser |-> "unset", closeCalls |-> 0, outcome |-> "none"]

\* Lines 21-30: puppeteer.launch().
PdfLaunch ==
    /\ pdf.pc = "start"
    /\ \/ pdf' = [pdf EXCEPT !.browser = "open", !.pc = "page"]
       \/ pdf' = [pdf EXCEPT !.pc = "catch"]

\* Lines 32-50: newPage, setViewport, generateHTMLReport, setContent.
PdfSetContent ==
    /\ pdf.pc = "page"
    /\ \/ pdf' = [pdf EXCEPT !.pc = "print"]
       \/ pdf' = [pdf EXCEPT !.pc = "catch"]

\* Lines 54-70: page.pdf() and the return statement.
PdfPrint ==
    /\ pdf.pc = "print"
    /\ \/ pdf' = [pdf EXCEPT !.outcome = "return", !.pc = "finally"]
       \/ pdf' = [pdf EXCEPT !.pc = "catch"]

\* Lines 72-74: the catch block throws a new Error.
PdfCatch ==
    /\ pdf.pc = "catch"
    /\ pdf' = [pdf EXCEPT !.outcome = "throw", !.pc = "finally"]

\* Lines 75-79: the finally block closes the browser when it was launched.
PdfFinally ==
    /\ pdf.pc = "finally"
    /\ pdf' = [pdf EXCEPT !.closeCalls = IF pdf.browser # "unset" THEN @ + 1 ELSE @,
                          !.browser = IF pdf.browser # "unset" THEN "closed" ELSE @,
                          !.pc = IF pdf.outcome = "return" THEN "returned" ELSE "thrown"]

(***************************************************************************)
(* The three entry points, one invocation of one of them at a time.        *)
(***************************************************************************)
analyzeVars ==
    <<pc, url, browser, closeCalls, html, facts, hasRobotsTxt, hasSitemap, result, loadTime>>

IdleAnalyzeSEO ==
    /\ pc = "idle"
    /\ url = ""
    /\ browser = "unset"
    /\ closeCalls = 0
    /\ html = NoPage
    /\ facts = NoFacts
    /\ hasRobotsTxt = FALSE
    /\ hasSitemap = FALSE
    /\ result = NoResult
    /\ loadTime = 0

InitEndpoints ==
    \/ InitAnalyzeSEO /\ vs = VsIdle /\ pdf = PdfIdle /\ calls = NoCalls
       /\ walk = WalkIdle /\ altTags = AltTagsIdle
    \/ IdleAnalyzeSEO /\ vs \in {VsStart(u) : u \in Urls} /\ pdf = PdfIdle /\ calls = NoCalls
       /\ walk = WalkIdle /\ altTags = AltTagsIdle
    \/ IdleAnalyzeSEO /\ vs = VsIdle /\ pdf = PdfStart /\ calls = NoCalls
       /\ walk = WalkIdle /\ altTags = AltTagsIdle

NextEndpoints ==
    \/ Launch /\ UNCHANGED others
    \/ Navigate /\ UNCHANGED others
    \/ Screenshot /\ UNCHANGED others
    \/ Content(TechnicalPages) /\ UNCHANGED others
    \/ CloseBrowser /\ UNCHANGED others
    \/ FetchRobots /\ UNCHANGED others
    \/ Analyze /\ UNCHANGED others
    \/ Catch /\ UNCHANGED others
    \/ VsLaunch /\ UNCHANGED <<analyzeVars, pdf, calls, walk, altTags>>
    \/ VsNavigate /\ UNCHANGED <<analyzeVars, pdf, calls, walk, altTags>>
    \/ VsContent(ValidatorPages) /\ UNCHANGED <<analyzeVars, pdf, calls, walk, altTags>>
    \/ VsClose /\ UNCHANGED <<analyzeVars, pdf, calls, walk, altTags>>
    \/ VsCatch /\ UNCHANGED <<analyzeVars, pdf, calls, walk, altTags>>
    \/ PdfLaunch /\ UNCHANGED <<analyzeVars, vs, calls, walk, altTags>>
    \/ PdfSetContent /\ UNCHANGED <<analyzeVars, vs, calls, walk, altTags>>
    \/ PdfPrint /\ UNCHANGED <<analyzeVars, vs, calls, walk, altTags>>
    \/ PdfCatch /\ UNCHANGED <<analyzeVars, vs, calls, walk, altTags>>
    \/ PdfFinally /\ UNCHANGED <<analyzeVars, vs, calls, walk, altTags>>

SpecEndpoints == InitEndpoints /\ [][NextEndpoints]_vars

(***************************************************************************)
(* Two invocations of analyzeSEO in flight at once, as POST /api/analyze  *)
(* starts them (server.js 73-103): each call of the async function has its *)
(* own parameter and its own let/const bindings, and the two interleave at *)
(* their await points.                                                     *)
(***************************************************************************)
Invocations == {1, 2}

\* What an invocation is given: the url argument, the document the browser
\* renders for it, and the answers of the robots.txt and sitemap probes.
PairInputs ==
    {[url |-> u[1], page |-> p, robots |-> u[2], sitemap |-> u[3]] :
        u \in {<<"example.com", TRUE, FALSE>>, <<"http://example.com", FALSE, TRUE>>},
        p \in {BasePage, ExamplePage, PerfectPage}}

\* The bindings of one invocation before its first statement.
NewFrame ==
    [url |-> "", browser |-> "unset", closeCalls |-> 0, html |-> NoPage,
     facts |-> NoFacts, hasRobotsTxt |-> FALSE, loadTime |-> 0]

\* A faulty variant of FrameOf: the bindings live at module level and both
\* invocations use the same ones.
FrameShared(i) == 1

\* The bindings invocation i reads and writes: the ones of its own call.
FrameOf(i) == i

Frame(i) == calls.frame[FrameOf(i)]

PairStep(i, to, frame) ==
    calls' = [calls EXCEPT !.pc[i] = to, !.frame[FrameOf(i)] = frame]

InitPair ==
    /\ IdleAnalyzeSEO
    /\ vs = VsIdle
    /\ pdf = PdfIdle
    /\ walk = WalkIdle
    /\ altTags = AltTagsIdle
    /\ \E in1, in2 \in PairInputs :
          calls = [pc |-> <<"start", "start">>,
                   input |-> <<in1, in2>>,
                   frame |-> <<NewFrame, NewFrame>>,
                   returned |-> <<NoResult, NoResult>>]

\* Lines 8-26.
PairLaunch(i) ==
    /\ calls.pc[i] = "start"
    /\ \/ PairStep(i, "navigate", [Frame(i) EXCEPT !.url = NormalizeUrl(calls.input[i].url),
                                                   !.browser = "open"])
       \/ PairStep(i, "catch", [Frame(i) EXCEPT !.url = NormalizeUrl(calls.input[i].url)])

\* Lines 28-41.
PairNavigate(i) ==
    /\ calls.pc[i] = "navigate"
    /\ \/ \E t \in LoadTimes : PairStep(i, "screenshot", [Frame(i) EXCEPT !.loadTime = t])
       \/ PairStep(i, "catch", Frame(i))

\* Lines 43-56.
PairScreenshot(i) ==
    /\ calls.pc[i] = "screenshot"
    /\ \/ PairStep(i, "content", Frame(i))
       \/ PairStep(i, "catch", Frame(i))

\* Lines 58-68.
PairContent(i) ==
    /\ calls.pc[i] = "content"
    /\ \/ PairStep(i, "close", [Frame(i) EXCEPT !.html = calls.input[i].page])
       \/ PairStep(i, "catch", Frame(i))

\* Lines 70-218.
PairCloseBrowser(i) ==
    /\ calls.pc[i] = "close"
    /\ \/ PairStep(i, "robots", [Frame(i) EXCEPT !.closeCalls = @ + 1,
                                                 !.browser = "closed",
                                                 !.facts = ExtractFacts(Frame(i).html)])
       \/ PairStep(i, "catch", [Frame(i) EXCEPT !.closeCalls = @ + 1])

\* Lines 214-228.
PairFetchRobots(i) ==
    /\ calls.pc[i] = "robots"
    /\ PairStep(i, "sitemap", [Frame(i) EXCEPT !.hasRobotsTxt = calls.input[i].robots])

\* Lines 229-1042: the value of the return statement is handed to the
\* caller of this invocation.
PairAnalyze(i) ==
    /\ calls.pc[i] = "sitemap"
    /\ calls' = [calls EXCEPT
                    !.pc[i] = "returned",
                    !.returned[i] = AnalysisOf(Frame(i).html, Frame(i).facts, Frame(i).url,
                                               Frame(i).hasRobotsTxt, calls.input[i].sitemap,
                                               PerformanceOf(Frame(i).loadTime))]

\* Lines 1043-1055.
PairCatch(i) ==
    /\ calls.pc[i] = "catch"
    /\ IF Frame(i).browser # "unset"
       THEN PairStep(i, "thrown", [Frame(i) EXCEPT !.closeCalls = @ + 1, !.browser = "closed"])
       ELSE PairStep(i, "thrown", Frame(i))

NextPair ==
    \/ \E i \in Invocations : PairLaunch(i) /\ UNCHANGED <<analyzeVars, vs, pdf, walk, altTags>>
    \/ \E i \in Invocations : PairNavigate(i) /\ UNCHANGED <<analyzeVars, vs, pdf, walk, altTags>>
    \/ \E i \in Invocations : PairScreenshot(i) /\ UNCHANGED <<analyzeVars, vs, pdf, walk, altTags>>
    \/ \E i \in Invocations : PairContent(i) /\ UNCHANGED <<analyzeVars, vs, pdf, walk, altTags>>
    \/ \E i \in Invocations : PairCloseBrowser(i) /\ UNCHANGED <<analyzeVars, vs, pdf, walk, altTags>>
    \/ \E i \in Invocations : PairFetchRobots(i) /\ UNCHANGED <<analyzeVars, vs, pdf, walk, altTags>>
    \/ \E i \in Invocations : PairAnalyze(i) /\ UNCHANGED <<analyzeVars, vs, pdf, walk, altTags>>
    \/ \E i \in Invocations : PairCatch(i) /\ UNCHANGED <<analyzeVars, vs, pdf, walk, altTags>>

SpecPair == InitPair /\ [][NextPair]_vars

(***************************************************************************)
(* One run of extractSchemaTypes (part_001 lines 250-308), call by call:   *)
(* the payload is what JSON.parse returned for one script, stack holds the  *)
(* arguments of the calls still to be made, in the order forEach makes     *)
(* them, and calls counts the calls made.                                  *)
(***************************************************************************)
MaxCalls == 16   \* more calls than any payload below has values

\* A payload whose nodes refer to each other, and to themselves, by @id.
SelfReferenceDoc ==
    JObj(<<Field("@id", JStr("#acme")),
           Field("@type", JStr("Organization")),
           Field("founder", JObj(<<Field("@id", JStr("#jo")),
                                   Field("@type", JStr("Person")),
                                   Field("worksFor", JObj(<<Field("@id", JStr("#acme"))>>)),
                                   Field("knows", JObj(<<Field("@id", JStr("#jo"))>>))>>))>>)

WalkDocs ==
    {JNull, UntypedDoc, OrganizationDoc, LocalBusinessDoc, GraphDoc, ArticleDoc,
     NumberTypeDoc, GraphNumberDoc, TypedGraphDoc, NestedAddressDoc, ArrayDoc,
     SelfReferenceDoc}

\* What JSON.parse may return: one document, or an array of two.
WalkPayloads == WalkDocs \cup {JArr(<<a, b>>) : a, b \in WalkDocs}

\* The number of values in a payload.
RECURSIVE ValueCount(_)
ValueCount(v) ==
    1 + SumSeq([i \in 1..Len(ObjectValues(v)) |-> ValueCount(ObjectValues(v)[i])])

\* Lines 251-280 of one call: the guard, the @graph test, the types.
OwnTypes(st, schema) ==
    IF ~Truthy(schema) \/ (Truthy(Get(schema, "@graph")) /\ Get(schema, "@graph").k = "arr")
    THEN st
    ELSE IF Truthy(Get(schema, "@type"))
         THEN AddTypes(st, IF Get(schema, "@type").k = "arr"
                           THEN Get(schema, "@type").items ELSE <<Get(schema, "@type")>>)
         ELSE st

\* The values one member value makes the call recurse into (lines 284-292).
NestedOf(value) ==
    IF Truthy(value) /\ value.k = "obj" THEN <<value>>
    ELSE IF value.k = "arr"
         THEN SelectSeq(value.items, LAMBDA item : Truthy(item) /\ IsObjectLike(item))
         ELSE <<>>

\* A faulty variant of NestedCalls: the call also recurses into the object
\* it was given.
NestedCallsWithSelf(schema) == <<schema>>

\* The arguments of the calls one call makes, in order: the members of
\* @graph (lines 254-257), or the nested objects (lines 283-293).
NestedCalls(schema) ==
    IF ~Truthy(schema) THEN <<>>
    ELSE IF Truthy(Get(schema, "@graph")) /\ Get(schema, "@graph").k = "arr"
         THEN Get(schema, "@graph").items
         ELSE Flatten([i \in 1..Len(ObjectValues(schema)) |->
                          NestedOf(ObjectValues(schema)[i])])

WalkStart(payload) ==
    [pc |-> "walking", payload |-> payload, stack |-> <<payload>>,
     st |-> NoSchemaFacts, calls |-> 0]

InitWalk ==
    /\ IdleAnalyzeSEO
    /\ vs = VsIdle
    /\ pdf = PdfIdle
    /\ calls = NoCalls
    /\ altTags = AltTagsIdle
    /\ walk \in {WalkStart(payload) : payload \in WalkPayloads}

\* One call of extractSchemaTypes; a TypeError thrown by type.includes
\* unwinds every pending call up to the catch of line 305.
WalkCall ==
    /\ walk.pc = "walking"
    /\ walk.stack # <<>>
    /\ walk.calls < MaxCalls
    /\ IF OwnTypes(walk.st, Head(walk.stack)).threw
       THEN walk' = [walk EXCEPT !.st = OwnTypes(walk.st, Head(walk.stack)),
                                 !.stack = <<>>,
                                 !.calls = @ + 1,
                                 !.pc = "caught"]
       ELSE walk' = [walk EXCEPT !.st = OwnTypes(walk.st, Head(walk.stack)),
                                 !.stack = NestedCalls(Head(walk.stack)) \o Tail(walk.stack),
                                 !.calls = @ + 1]

\* The outermost call returns to line 303.
WalkReturn ==
    /\ walk.pc = "walking"
    /\ walk.stack = <<>>
    /\ walk' = [walk EXCEPT !.pc = "returned"]

\* Lines 305-307: the catch block logs the error.
WalkCatch ==
    /\ walk.pc = "caught"
    /\ walk' = [walk EXCEPT !.st.threw = FALSE, !.pc = "returned"]

NextWalk ==
    \/ WalkCall /\ UNCHANGED <<analyzeVars, vs, pdf, calls, altTags>>
    \/ WalkReturn /\ UNCHANGED <<analyzeVars, vs, pdf, calls, altTags>>
    \/ WalkCatch /\ UNCHANGED <<analyzeVars, vs, pdf, calls, altTags>>

SpecWalk == InitWalk /\ [][NextWalk]_vars /\ WF_vars(NextWalk)

(***************************************************************************)
(* checkAltTags (schema-validator.js lines 510-632).  An img element is    *)
(* its alt attribute ("absent" when it has none) and whether its width,    *)
(* height or src make it a tracking pixel (lines 554-560).                 *)
(***************************************************************************)
MaxAltImgs == 3  \* img elements of the fetched page

AltImage(alt, pixel) == [alt |-> alt, pixel |-> pixel]
AltImageLists ==
    SeqsUpTo({AltImage(a, p) : a \in {"absent", "", "Logo"}, p \in BOOLEAN}, MaxAltImgs)

\* imageData (lines 562-568): an empty alt attribute counts as an alt.
AltImageData(img) ==
    [alt |-> IF img.alt = "absent" THEN "" ELSE img.alt,
     hasAlt |-> img.alt # "absent",
     isTrackingPixel |-> img.pixel]

\* The returned statistics and lists (lines 541-603).
AltStatisticsOf(imgs) ==
    LET images == [i \in 1..Len(imgs) |-> AltImageData(imgs[i])]
        imagesWithAlt == SelectSeq(images, LAMBDA d : d.hasAlt)
        imagesWithoutAlt == SelectSeq(images, LAMBDA d : ~d.hasAlt /\ ~d.isTrackingPixel)
        relevantImages == SelectSeq(images, LAMBDA d : ~d.isTrackingPixel)
    IN  [statistics |->
            [totalImages |-> Len(images),
             relevantImages |-> Len(relevantImages),
             imagesWithAlt |-> Len(imagesWithAlt),
             imagesWithoutAlt |-> Len(imagesWithoutAlt),
             trackingPixels |-> Len(SelectSeq(images, LAMBDA d : d.isTrackingPixel)),
             altCoverage |-> IF Len(relevantImages) > 0
                             THEN RoundPercent(Len(imagesWithAlt), Len(relevantImages))
                             ELSE 0],
         images |-> [all |-> images, withAlt |-> imagesWithAlt,
                     withoutAlt |-> imagesWithoutAlt]]

AltTagsStart(u) == [pc |-> "start", url |-> u, imgs |-> <<>>, result |-> NoResult]

InitAltTags ==
    /\ IdleAnalyzeSEO
    /\ vs = VsIdle
    /\ pdf = PdfIdle
    /\ calls = NoCalls
    /\ walk = WalkIdle
    /\ altTags \in {AltTagsStart(u) : u \in Urls}

\* Lines 512-539: the url gets its scheme (new URL accepts every url of
\* this model), axios.get resolves with the page or rejects.
AltFetch ==
    /\ altTags.pc = "start"
    /\ \/ \E imgs \in AltImageLists :
             altTags' = [altTags EXCEPT !.url = NormalizeUrl(@), !.imgs = imgs,
                                        !.pc = "loaded"]
       \/ altTags' = [altTags EXCEPT !.url = NormalizeUrl(@), !.pc = "catch"]

\* Lines 541-603: the images are classified and the result is returned.
AltClassify ==
    /\ altTags.pc = "loaded"
    /\ altTags' = [altTags EXCEPT !.result = AltStatisticsOf(altTags.imgs), !.pc = "returned"]

\* Lines 606-631: the catch block throws a new Error.
AltCatch ==
    /\ altTags.pc = "catch"
    /\ altTags' = [altTags EXCEPT !.pc = "thrown"]

NextAltTags ==
    \/ AltFetch /\ UNCHANGED <<analyzeVars, vs, pdf, calls, walk>>
    \/ AltClassify /\ UNCHANGED <<analyzeVars, vs, pdf, calls, walk>>
    \/ AltCatch /\ UNCHANGED <<analyzeVars, vs, pdf, calls, walk>>

SpecAltTags == InitAltTags /\ [][NextAltTags]_vars

(***************************************************************************)
(* Properties.                                                             *)
(***************************************************************************)
Bit(b) == IF b THEN 1 ELSE 0

\* C1: whatever the page and the technical flags, the four category totals
\* stay within 0..45, 0..30, 0..15 and 0..10, and the score is exactly their
\* sum, hence within 0..100.
CategoryRangesAndSum ==
    pc = "returned" =>
        /\ result.scoreBreakdown.onPage \in 0..45
        /\ result.scoreBreakdown.technical \in 0..30
        /\ result.scoreBreakdown.local \in 0..15
        /\ result.scoreBreakdown.social \in 0..10
        /\ result.score = result.scoreBreakdown.onPage + result.scoreBreakdown.technical
                          + result.scoreBreakdown.local + result.scoreBreakdown.social
        /\ result.score \in 0..100

\* C1 witness: a page on which every category reaches its maximum.
PerfectScoreReached ==
    /\ pc = "returned"
    /\ result.scoreBreakdown.onPage = 45
    /\ result.scoreBreakdown.technical = 30
    /\ result.scoreBreakdown.local = 15
    /\ result.scoreBreakdown.social = 10
    /\ result.score = 100

\* The worked example of the specification, as the facts the engine has
\* extracted: a 55-character title, no description, one H1 of 25
\* characters, fewer than two H2, 10 images all with alt text, fewer than 50
\* words, SSL, and nothing else.
IsWorkedExample ==
    /\ pc = "returned"
    /\ result.metaTags.titleLength = 55
    /\ ~result.metaTags.hasDescription
    /\ result.headings.h1Count = 1 /\ result.headings.h1Text = <<25>>
    /\ result.headings.h2Count < 2
    /\ result.images.total = 10 /\ result.images.withAlt = 10
    /\ result.content.wordCount < 50
    /\ result.technicalSEO.hasSSL
    /\ ~result.technicalSEO.hasRobotsTxt /\ ~result.technicalSEO.hasSitemap
    /\ ~result.technicalSEO.hasAnalytics /\ ~result.technicalSEO.hasSchema
    /\ ~result.localSEO.hasPhone /\ ~result.localSEO.hasAddress
    /\ ~result.localSEO.hasLocalBusinessSchema
    /\ SocialLinksCount(result.social) = 0

WorkedExampleScores ==
    /\ result.scoreBreakdown.onPage = 24
    /\ result.scoreBreakdown.technical = 5
    /\ result.scoreBreakdown.local = 0
    /\ result.scoreBreakdown.social = 0
    /\ result.score = 29

\* C2 as stated: the worked example scores 24 + 5 + 0 + 0 = 29 and is
\* graded "D-".
WorkedExampleGradedDMinus ==
    IsWorkedExample => WorkedExampleScores /\ result.grade = "D-"

\* C2 as amended: the worked example scores 24 + 5 + 0 + 0 = 29 and is
\* graded "F", the grade of every total below 35.
WorkedExampleGradedF ==
    IsWorkedExample => WorkedExampleScores /\ result.grade = "F"

\* C2 witness: the worked example has been audited.
WorkedExampleAudited == IsWorkedExample /\ html = ExamplePage

\* The grade table of the specification: 5-point bands from A+ down to F.
GradeBand(total) ==
    CASE total >= 90 -> "A+"
      [] total \in 85..89 -> "A"
      [] total \in 80..84 -> "A-"
      [] total \in 75..79 -> "B+"
      [] total \in 70..74 -> "B"
      [] total \in 65..69 -> "B-"
      [] total \in 60..64 -> "C+"
      [] total \in 55..59 -> "C"
      [] total \in 50..54 -> "C-"
      [] total \in 45..49 -> "D+"
      [] total \in 40..44 -> "D"
      [] total \in 35..39 -> "D-"
      [] total < 35 -> "F"

GradeRank(grade) ==
    CHOOSE i \in 1..13 :
        <<"F", "D-", "D", "D+", "C-", "C", "C+", "B-", "B", "B+", "A-", "A", "A+">>[i] = grade

\* C3: the grade depends on the total only, by the fixed 5-point bands, F
\* exactly below 35, and a higher total never gets a lower grade.
GradeFollowsBands ==
    /\ pc = "returned" => result.grade = GradeBand(result.score)
    /\ \A total \in 0..100 :
          /\ GradeOf(total) = GradeBand(total)
          /\ GradeOf(total) = "F" <=> total < 35
    /\ \A total \in 0..99 : GradeRank(GradeOf(total)) <= GradeRank(GradeOf(total + 1))

\* C3 witness: an audit whose total sits on the lower edge of a band.
BandEdgeGraded ==
    /\ pc = "returned"
    /\ result.score \in {35, 40, 45, 50, 55, 60, 65, 70, 75, 80, 85, 90}
    /\ result.grade # "F"

\* The points of the title and description rules as the specification's
\* table gives them, from the lengths on the page.
TitlePointsTable(length) ==
    IF length \in 50..60 THEN 12
    ELSE IF length \in 30..70 THEN 4
    ELSE IF length > 0 THEN 1 ELSE 0

DescriptionPointsTable(length) ==
    IF length \in 120..160 THEN 8
    ELSE IF length \in 50..200 THEN 2
    ELSE IF length > 0 THEN 1 ELSE 0

\* The "+N" of the entries a rule has pushed to scoreBreakdown.details.
StatedPoints(details, rule) ==
    SumSeq([i \in 1..Len(SelectSeq(details, LAMBDA e : e.rule = rule)) |->
                SelectSeq(details, LAMBDA e : e.rule = rule)[i].plus])

\* C4: the title rule awards 12 / 4 / 1 / 0 and the description rule
\* 8 / 2 / 1 / 0 by the length bands 50..60, 30..70, present, absent and
\* 120..160, 50..200, present, absent; no other value is awarded.
TitleAndDescriptionBands ==
    pc = "returned" =>
        /\ TitleRule(result.metaTags).pts = TitlePointsTable(html.title)
        /\ DescriptionRule(result.metaTags).pts = DescriptionPointsTable(html.description)
        /\ TitleRule(result.metaTags).pts \in {0, 1, 4, 12}
        /\ DescriptionRule(result.metaTags).pts \in {0, 1, 2, 8}
        /\ StatedPoints(result.scoreBreakdown.details, "title")
               = TitlePointsTable(html.title)
        /\ StatedPoints(result.scoreBreakdown.details, "description")
               = DescriptionPointsTable(html.description)

\* C4 witness: a title on the upper edge of the 30..70 band, and a
\* description on the upper edge of the 120..160 band, have been scored.
BandEdgeLengthsScored ==
    /\ pc = "returned"
    /\ \/ html.title = 70 /\ StatedPoints(result.scoreBreakdown.details, "title") = 4
       \/ html.description = 160
          /\ StatedPoints(result.scoreBreakdown.details, "description") = 8

\* C5: exactly one H1 with 20 or more characters of trimmed text earns 8
\* points, exactly one shorter (or empty) H1 earns 1, several H1 earn 1, no
\* H1 earns 0.
H1PointsByCountAndLength ==
    pc = "returned" =>
        /\ H1Rule(result.headings).pts =
              (IF Len(html.h1) = 1 THEN (IF html.h1[1] >= 20 THEN 8 ELSE 1)
               ELSE IF Len(html.h1) > 1 THEN 1 ELSE 0)
        /\ StatedPoints(result.scoreBreakdown.details, "h1") = H1Rule(result.headings).pts

\* C5 witness: a page whose only H1 is empty has been scored 1 point.
EmptyH1Scored ==
    /\ pc = "returned"
    /\ html.h1 = <<0>>
    /\ StatedPoints(result.scoreBreakdown.details, "h1") = 1

\* The images of the page that carry non-empty trimmed alt text.
ImagesWithAlt(page) == {i \in 1..Len(page.imgs) : HasAlt(page.imgs[i])}

\* C6: the image-alt rule awards 2 points on a page without images,
\* otherwise 4 points when every image has alt text (100% coverage), 2 at
\* coverage >= 80%, 1 at coverage >= 50% and 0 below, coverage being the
\* share of images with non-empty trimmed alt text.
ImageAltPointsByCoverage ==
    pc = "returned" =>
        StatedPoints(result.scoreBreakdown.details, "alt") =
            (IF Len(html.imgs) = 0 THEN 2
             ELSE IF Cardinality(ImagesWithAlt(html)) = Len(html.imgs) THEN 4
             ELSE IF 100 * Cardinality(ImagesWithAlt(html)) >= 80 * Len(html.imgs) THEN 2
             ELSE IF 100 * Cardinality(ImagesWithAlt(html)) >= 50 * Len(html.imgs) THEN 1
             ELSE 0)

\* C7: the word count is never 0, an empty body has a word count of exactly
\* 1, and the content rule awards 8 from 1000 words, 3 from 500, 1 from 50
\* (both the 300..499 and the 50..299 band) and 0 below 50.
WordCountAndContentPoints ==
    pc = "returned" =>
        /\ result.content.wordCount >= 1
        /\ html.words = 0 => result.content.wordCount = 1
        /\ html.words > 0 => result.content.wordCount = html.words
        /\ StatedPoints(result.scoreBreakdown.details, "content") =
              (IF result.content.wordCount >= 1000 THEN 8
               ELSE IF result.content.wordCount >= 500 THEN 3
               ELSE IF result.content.wordCount >= 50 THEN 1 ELSE 0)
        /\ ContentRule(result.content).pts
              = StatedPoints(result.scoreBreakdown.details, "content")
        /\ html.words = 0 => ContentRule(result.content).pts = 0

\* C7 witness: a page with an empty body has been audited.
EmptyBodyCounted ==
    /\ pc = "returned"
    /\ html.words = 0
    /\ result.content.wordCount = 1
    /\ StatedPoints(result.scoreBreakdown.details, "content") = 0

\* Some JSON-LD script of the page parses and, walked on its own, yields at
\* least one type.
SomeScriptYieldsType(page) ==
    \E i \in 1..Len(page.ldJson) :
        /\ page.ldJson[i].body = "json"
        /\ extractSchemaTypes(NoSchemaFacts, page.ldJson[i].value).schemaTypes # <<>>

\* The S of the technical category, as the specification gives it.
SchemaPointsTable(page, technicalSEO) ==
    IF SomeScriptYieldsType(page) THEN 12
    ELSE IF technicalSEO.hasMicrodata \/ technicalSEO.hasRDFa THEN 4 ELSE 0

\* The "+N" values of the entries of a rule, in order.
StatedParts(details, rule) ==
    [i \in 1..Len(SelectSeq(details, LAMBDA e : e.rule = rule)) |->
        SelectSeq(details, LAMBDA e : e.rule = rule)[i].plus]

\* C8: technical = 5*[SSL] + 5*[robots.txt] + 5*[sitemap] + 3*[analytics] + S
\* with S = 12 when a JSON-LD script parsed and yielded a type, else 4 when
\* only Microdata or RDFa is present, else 0; the 3 and the 2 points of
\* robots.txt, and of the sitemap, are awarded together or not at all.
TechnicalCategoryFormula ==
    pc = "returned" =>
        /\ result.scoreBreakdown.technical =
              5 * Bit(isSSL(NormalizeUrl(url))) + 5 * Bit(hasRobotsTxt) + 5 * Bit(hasSitemap)
              + 3 * Bit(html.signatures # {}) + SchemaPointsTable(html, result.technicalSEO)
        /\ StatedPoints(result.scoreBreakdown.details, "schema")
              = SchemaPointsTable(html, result.technicalSEO)
        /\ StatedParts(result.scoreBreakdown.details, "robots")
              = (IF hasRobotsTxt THEN <<3, 2>> ELSE <<0>>)
        /\ StatedParts(result.scoreBreakdown.details, "sitemap")
              = (IF hasSitemap THEN <<3, 2>> ELSE <<0>>)

\* C8 witness: a page with a JSON-LD script that yields no type and with
\* Microdata or RDFa has been scored 4 on structured data, robots.txt
\* present and sitemap absent.
NonJsonLdSchemaScored ==
    /\ pc = "returned"
    /\ Len(html.ldJson) > 0
    /\ ~SomeScriptYieldsType(html)
    /\ StatedPoints(result.scoreBreakdown.details, "schema") = 4
    /\ hasRobotsTxt /\ ~hasSitemap

\* The network a URL points to, by its host ("" when none of the five).
NetworkOfUrl(href) ==
    CASE href \in {"https://www.facebook.com/acme", "https://www.facebook.com/acme.page"}
            -> "Facebook"
      [] href = "https://www.instagram.com/acme" -> "Instagram"
      [] href \in {"https://twitter.com/acme", "https://x.com/acme"} -> "Twitter/X"
      [] href = "https://www.linkedin.com/company/acme" -> "LinkedIn"
      [] href = "https://www.youtube.com/@acme" -> "YouTube"
      [] OTHER -> ""

\* The networks that have a link on the page: an anchor, or the og:url
\* reference, pointing to the network.
LinkedNetworks(page) ==
    ({NetworkOfUrl(page.links[i]) : i \in 1..Len(page.links)}
     \cup {NetworkOfUrl(page.ogUrl)}) \ {""}

\* C9: local = 3*[phone] + 4*[address] + 8*[local-business schema], and
\* social = 10 when at least two of the five networks have a link on the
\* page, 5 when exactly one has, 0 when none has.
LocalAndSocialFormula ==
    pc = "returned" =>
        /\ result.scoreBreakdown.local =
              3 * Bit(result.localSEO.hasPhone) + 4 * Bit(result.localSEO.hasAddress)
              + 8 * Bit(result.localSEO.hasLocalBusinessSchema)
        /\ result.scoreBreakdown.social =
              (IF Cardinality(LinkedNetworks(html)) >= 2 THEN 10
               ELSE IF Cardinality(LinkedNetworks(html)) = 1 THEN 5 ELSE 0)

\* The scoring rules in evaluation order: 6 on-page, 5 technical, 3 local,
\* 1 social.
RuleOrder ==
    <<"title", "description", "h1", "headings", "alt", "content",
      "ssl", "robots", "sitemap", "analytics", "schema",
      "phone", "address", "localBusiness", "social">>

RulesOf(details) == [i \in 1..Len(details) |-> details[i].rule]

\* The points a rule has added to its category.
AwardedPoints(rule) ==
    CASE rule = "title" -> TitleRule(result.metaTags).pts
      [] rule = "description" -> DescriptionRule(result.metaTags).pts
      [] rule = "h1" -> H1Rule(result.headings).pts
      [] rule = "headings" -> HeadingRule(result.headings).pts
      [] rule = "alt" -> ImageAltRule(result.images).pts
      [] rule = "content" -> ContentRule(result.content).pts
      [] rule = "ssl" -> SSLRule(result.technicalSEO).pts
      [] rule = "robots" -> RobotsRule(result.technicalSEO).pts
      [] rule = "sitemap" -> SitemapRule(result.technicalSEO).pts
      [] rule = "analytics" -> AnalyticsRule(result.technicalSEO).pts
      [] rule = "schema" -> SchemaRule(result.technicalSEO).pts
      [] rule = "phone" -> PhoneRule(result.localSEO).pts
      [] rule = "address" -> AddressRule(result.localSEO).pts
      [] rule = "localBusiness" -> LocalBusinessRule(result.localSEO).pts
      [] rule = "social" -> SocialRule(result.social).pts

\* C10 as stated: details has exactly 15 entries, one per rule in rule
\* order, each stating the points its rule awarded.
OneEntryPerRule ==
    pc = "returned" =>
        /\ Len(result.scoreBreakdown.details) = 15
        /\ RulesOf(result.scoreBreakdown.details) = RuleOrder
        /\ \A i \in 1..15 :
              result.scoreBreakdown.details[i].plus = AwardedPoints(RuleOrder[i])

\* The rule order with the second entry of robots.txt and of the sitemap.
RuleOrderWith(robots, sitemap) ==
    SubSeq(RuleOrder, 1, 7)
    \o (IF robots THEN <<"robots", "robots">> ELSE <<"robots">>)
    \o (IF sitemap THEN <<"sitemap", "sitemap">> ELSE <<"sitemap">>)
    \o SubSeq(RuleOrder, 10, 15)

\* C10 as amended: details follows the rule order, with one entry per rule
\* except that robots.txt and the sitemap have two entries each (+3 and +2)
\* when present: 15 entries plus one per file present, and the entries of
\* each rule add up to the points the rule awarded.
EntriesPerRule ==
    pc = "returned" =>
        /\ RulesOf(result.scoreBreakdown.details)
              = RuleOrderWith(result.technicalSEO.hasRobotsTxt, result.technicalSEO.hasSitemap)
        /\ Len(result.scoreBreakdown.details)
              = 15 + Bit(result.technicalSEO.hasRobotsTxt) + Bit(result.technicalSEO.hasSitemap)
        /\ \A i \in 1..15 :
              StatedPoints(result.scoreBreakdown.details, RuleOrder[i])
                  = AwardedPoints(RuleOrder[i])
        /\ StatedParts(result.scoreBreakdown.details, "robots")
              = (IF result.technicalSEO.hasRobotsTxt THEN <<3, 2>> ELSE <<0>>)
        /\ StatedParts(result.scoreBreakdown.details, "sitemap")
              = (IF result.technicalSEO.hasSitemap THEN <<3, 2>> ELSE <<0>>)

\* C10 witness: an audit that found both robots.txt and the sitemap lists
\* 17 entries.
SeventeenEntriesListed ==
    /\ pc = "returned"
    /\ hasRobotsTxt /\ hasSitemap
    /\ Len(result.scoreBreakdown.details) = 17

\* The type values an object declares: its @type, or the members of its
\* @type array.
DeclaredTypes(v) ==
    IF v.k = "obj" /\ Truthy(Get(v, "@type"))
    THEN (IF Get(v, "@type").k = "arr" THEN Get(v, "@type").items ELSE <<Get(v, "@type")>>)
    ELSE <<>>

\* Every type value of a payload in document order: an object's own types,
\* then those of its values, depth first.
RECURSIVE TypesInDocumentOrder(_)
TypesInDocumentOrder(v) ==
    CASE v.k = "obj" ->
            DeclaredTypes(v)
            \o Flatten([i \in 1..Len(v.fields) |-> TypesInDocumentOrder(v.fields[i].val)])
      [] v.k = "arr" ->
            Flatten([i \in 1..Len(v.items) |-> TypesInDocumentOrder(v.items[i])])
      [] OTHER -> <<>>

\* The types of the scripts of a page that parse, in document order.
TypesEncountered(scripts) ==
    Flatten([i \in 1..Len(scripts) |->
                IF scripts[i].body = "json" THEN TypesInDocumentOrder(scripts[i].value)
                ELSE <<>>])

FirstIndex(s, x) == CHOOSE i \in 1..Len(s) : s[i] = x /\ \A j \in 1..(i - 1) : s[j] # x

\* The types of the members of the top-level @graph array of each script,
\* in the order the members appear.
GraphMemberTypes(scripts) ==
    Flatten([i \in 1..Len(scripts) |->
                IF /\ scripts[i].body = "json"
                   /\ scripts[i].value.k = "obj"
                   /\ Get(scripts[i].value, "@graph").k = "arr"
                THEN Flatten([j \in 1..Len(Get(scripts[i].value, "@graph").items) |->
                                 DeclaredTypes(Get(scripts[i].value, "@graph").items[j])])
                ELSE <<>>])

\* C11: schemaTypes lists no type twice, lists its types in first-seen
\* order, and contains the type of every typed member of a top-level @graph
\* array, in the order the members appear.
SchemaTypesUniqueOrderedComplete ==
    pc = "returned" =>
        /\ \A i, j \in 1..Len(result.technicalSEO.schemaTypes) :
              i # j => result.technicalSEO.schemaTypes[i] # result.technicalSEO.schemaTypes[j]
        /\ \A i \in 1..Len(result.technicalSEO.schemaTypes) :
              Contains(TypesEncountered(html.ldJson), result.technicalSEO.schemaTypes[i])
        /\ \A i, j \in 1..Len(result.technicalSEO.schemaTypes) :
              i < j => FirstIndex(TypesEncountered(html.ldJson),
                                  result.technicalSEO.schemaTypes[i])
                       < FirstIndex(TypesEncountered(html.ldJson),
                                    result.technicalSEO.schemaTypes[j])
        /\ \A i \in 1..Len(GraphMemberTypes(html.ldJson)) :
              Contains(result.technicalSEO.schemaTypes, GraphMemberTypes(html.ldJson)[i])

\* The identity types among the types listed, in encounter order.
IdentityTypesListed(schemaTypes) == SelectSeq(schemaTypes, IsIdentityType)

\* C12: hasIdentitySchema is true exactly when an encountered type is one of
\* Organization, Person, Corporation, LocalBusiness, and identityType is
\* then the first such type in encounter order.
IdentityIsFirstIdentityType ==
    pc = "returned" =>
        /\ result.technicalSEO.hasIdentitySchema
              <=> IdentityTypesListed(result.technicalSEO.schemaTypes) # <<>>
        /\ result.technicalSEO.hasIdentitySchema =>
              result.technicalSEO.identityType
                  = Head(IdentityTypesListed(result.technicalSEO.schemaTypes)).s

\* The scripts of a page without those whose body fails to parse.
ParsingScripts(scripts) == SelectSeq(scripts, LAMBDA script : script.body # "invalid")

\* C13: a JSON-LD script that fails to parse contributes nothing and stops
\* nothing: the audit does not fail once the page is read, and schemaTypes
\* (and the validator's jsonLd list) is what it would be were the failing
\* scripts absent, with the types of every parsing script in it.
ParseFailuresSkipped ==
    /\ pc \in {"catch", "thrown"} => facts = NoFacts
    /\ pc = "returned" =>
          /\ result.technicalSEO.schemaTypes
                = ScanScripts(NoSchemaFacts, ParsingScripts(html.ldJson)).schemaTypes
          /\ \A i \in 1..Len(html.ldJson) :
                html.ldJson[i].body = "json" =>
                    \A t \in Range(extractSchemaTypes(NoSchemaFacts,
                                                      html.ldJson[i].value).schemaTypes) :
                        Contains(result.technicalSEO.schemaTypes, t)
    /\ vs.pc = "catch" /\ vs.browser = "closed" =>
          SummaryThrows(extractJsonLd(ParsingScripts(vs.html.ldJson)))
    /\ vs.pc = "returned" =>
          /\ vs.result.schemas.jsonLd = extractJsonLd(ParsingScripts(vs.html.ldJson))
          /\ \A i \in 1..Len(vs.html.ldJson) :
                \A schema \in Range(JsonLdOfScript(vs.html.ldJson[i])) :
                    Contains(vs.result.schemas.jsonLd, schema)

\* C13 witness: an audit of a page with a failing script between two
\* parsing ones has returned, with the types of both.
FailingScriptBetweenParsed ==
    /\ pc = "returned"
    /\ html.ldJson = <<JsonScript(ArticleDoc), InvalidScript, JsonScript(LocalBusinessDoc)>>
    /\ Contains(result.technicalSEO.schemaTypes, JStr("Article"))
    /\ Contains(result.technicalSEO.schemaTypes, JStr("LocalBusiness"))

\* The display texts of the tel: links that contain a digit, in document
\* order.
TelLinkPhones(page) == SelectSeq(page.telLinks, LAMBDA text : text # "" /\ HasDigit(text))

\* C14: at most one phone is reported, first match wins: the display text
\* of the first tel: link with a digit; else the first match of the first
\* body-text pattern family that matches; else no phone.
PhoneFirstMatchWins ==
    pc = "returned" =>
        IF TelLinkPhones(html) # <<>>
        THEN result.localSEO.hasPhone
             /\ result.localSEO.phoneNumber = Head(TelLinkPhones(html))
        ELSE IF Flatten(html.phoneMatches) # <<>>
             THEN result.localSEO.hasPhone
                  /\ result.localSEO.phoneNumber = Head(Flatten(html.phoneMatches))
             ELSE ~result.localSEO.hasPhone

\* The PostalAddress objects of a payload, at any depth, in document order.
RECURSIVE PostalAddressesIn(_)
PostalAddressesIn(v) ==
    CASE v.k = "obj" ->
            (IF Contains(DeclaredTypes(v), JStr("PostalAddress")) THEN <<v>> ELSE <<>>)
            \o Flatten([i \in 1..Len(v.fields) |-> PostalAddressesIn(v.fields[i].val)])
      [] v.k = "arr" ->
            Flatten([i \in 1..Len(v.items) |-> PostalAddressesIn(v.items[i])])
      [] OTHER -> <<>>

PostalAddressesOf(page) ==
    Flatten([i \in 1..Len(page.ldJson) |->
                IF page.ldJson[i].body = "json" THEN PostalAddressesIn(page.ldJson[i].value)
                ELSE <<>>])

\* Street, locality, region and postal code of a PostalAddress, joined
\* with ", ".
JoinedAddress(address) ==
    JoinParts(SelectSeq(<<Get(address, "streetAddress"), Get(address, "addressLocality"),
                          Get(address, "addressRegion"), Get(address, "postalCode")>>,
                        Truthy))

\* C15: on a page with a PostalAddress object in a JSON-LD script and a
\* body-text match of the US street-address pattern, the reported address
\* is the one derived from the JSON-LD object, not the pattern match.
JsonLdAddressPrecedes ==
    (pc = "returned" /\ PostalAddressesOf(html) # <<>> /\ html.usMatches # <<>>) =>
        /\ result.localSEO.hasAddress
        /\ \E address \in Range(PostalAddressesOf(html)) :
              result.localSEO.addressText = JoinedAddress(address)

CategoryRank(category) ==
    CASE category = "On-Page SEO" -> 1
      [] category = "Technical SEO" -> 2
      [] category = "Local SEO" -> 3
      [] category = "Social" -> 4
      [] OTHER -> 0

\* C16: the recommendations come in generation order: On-Page SEO (High
\* priority before Medium), then Technical SEO, Local SEO, Social; every
\* category is one of the four; no rule contributes two entries and no
\* recommendation appears twice.
RecommendationsInGenerationOrder ==
    pc = "returned" =>
        /\ \A i \in 1..Len(result.recommendations) :
              CategoryRank(result.recommendations[i].category) \in 1..4
        /\ \A i, j \in 1..Len(result.recommendations) :
              i < j =>
                /\ CategoryRank(result.recommendations[i].category)
                      <= CategoryRank(result.recommendations[j].category)
                /\ ~(/\ result.recommendations[i].category = "On-Page SEO"
                     /\ result.recommendations[j].category = "On-Page SEO"
                     /\ result.recommendations[i].priority = "Medium Priority"
                     /\ result.recommendations[j].priority = "High Priority")
                /\ result.recommendations[i].rule # result.recommendations[j].rule
                /\ result.recommendations[i].title # result.recommendations[j].title

\* C16 witness: a list with entries of all four categories and with High
\* and Medium priority on-page entries.
AllCategoriesRecommended ==
    /\ pc = "returned"
    /\ \A rank \in 1..4 :
          \E i \in 1..Len(result.recommendations) :
              CategoryRank(result.recommendations[i].category) = rank
    /\ \E i, j \in 1..Len(result.recommendations) :
          /\ result.recommendations[i].category = "On-Page SEO"
          /\ result.recommendations[j].category = "On-Page SEO"
          /\ result.recommendations[i].priority = "High Priority"
          /\ result.recommendations[j].priority = "Medium Priority"

\* The maximum of each scoring rule.
MaxPoints(rule) ==
    CASE rule = "title" -> 12 [] rule = "description" -> 8 [] rule = "h1" -> 8
      [] rule = "headings" -> 5 [] rule = "alt" -> 4 [] rule = "content" -> 8
      [] rule = "ssl" -> 5 [] rule = "robots" -> 5 [] rule = "sitemap" -> 5
      [] rule = "analytics" -> 3 [] rule = "schema" -> 12
      [] rule = "phone" -> 3 [] rule = "address" -> 4 [] rule = "localBusiness" -> 8
      [] rule = "social" -> 10

\* The recommendations that answer a scoring rule: its own, and for the
\* social rule those of the two networks that have one.
RecommendationsFor(rule) == IF rule = "social" THEN {"facebook", "instagram"} ELSE {rule}

\* C17: whenever a scoring rule awards less than its maximum, the list
\* contains the recommendation of that rule.
DeficiencyHasRecommendation ==
    pc = "returned" =>
        \A k \in 1..Len(RuleOrder) :
            AwardedPoints(RuleOrder[k]) < MaxPoints(RuleOrder[k]) =>
                \E i \in 1..Len(result.recommendations) :
                    result.recommendations[i].rule \in RecommendationsFor(RuleOrder[k])

\* C18: two runs on the same input (url, rendered document, technical
\* booleans) return identical results, field for field.
SameInputSameResult ==
    (/\ calls.pc[1] = "returned"
     /\ calls.pc[2] = "returned"
     /\ calls.input[1] = calls.input[2])
        => calls.returned[1] = calls.returned[2]

\* What an invocation returns when it runs alone on the given input and its
\* navigation takes t milliseconds.
AloneResult(in, t) ==
    AnalysisOf(in.page, ExtractFacts(in.page), NormalizeUrl(in.url), in.robots, in.sitemap,
               PerformanceOf(t))

\* C19: whatever the interleaving of two invocations at their await points,
\* each one returns what it would return when run alone on its own input.
ConcurrentAuditsIndependent ==
    \A i \in Invocations :
        calls.pc[i] = "returned" =>
            \E t \in LoadTimes : calls.returned[i] = AloneResult(calls.input[i], t)

\* C19 witness: one invocation has returned while the other, working on a
\* different document, is suspended between capturing it and returning.
ReturnedWhileOtherSuspended ==
    /\ calls.pc[1] = "returned"
    /\ calls.pc[2] \in {"robots", "sitemap"}
    /\ calls.input[1].page # calls.input[2].page
    /\ calls.frame[2].html = calls.input[2].page

ImageAndLinkCountsConsistent ==
    pc = "returned" =>
        /\ result.images.withAlt + result.images.withoutAlt = result.images.total
        /\ result.images.total = Len(result.images.all)
        /\ result.images.withAlt = Len(result.images.withAltList)
        /\ result.images.withoutAlt = Len(result.images.withoutAltList)
        /\ \A i \in 1..Len(result.images.withAltList) : result.images.withAltList[i].hasAlt
        /\ \A i \in 1..Len(result.images.withoutAltList) :
              ~result.images.withoutAltList[i].hasAlt
        /\ \A b \in BOOLEAN :
              Len(SelectSeq(result.images.all, LAMBDA d : d.hasAlt = b))
                 = IF b THEN result.images.withAlt ELSE result.images.withoutAlt
        /\ result.links.internal >= 0
        /\ result.links.external >= 0
        /\ result.links.internal + result.links.external <= result.links.total

\* C21 witness: a page with an absolute link to its own host and a link in
\* neither bucket.
OwnHostAndUnbucketedLink ==
    /\ pc = "returned"
    /\ html.links = <<"https://example.com/contact", "#top">>
    /\ result.links.internal = 1
    /\ result.links.external = 0
    /\ result.links.total = 2

\* C22: every type declared by an object anywhere inside a parsed JSON-LD
\* payload, at any depth inside object values and arrays, is in
\* schemaTypes after extraction.
NestedTypesAllListed ==
    pc = "returned" =>
        \A i \in 1..Len(TypesEncountered(html.ldJson)) :
            Contains(result.technicalSEO.schemaTypes, TypesEncountered(html.ldJson)[i])

MicrodataAndRDFaDetected ==
    pc = "returned" =>
        /\ result.technicalSEO.hasMicrodata
              <=> ("itemtype" \in html.attrs \/ "itemscope" \in html.attrs)
        /\ result.technicalSEO.hasRDFa
              <=> ("vocab" \in html.attrs \/ "typeof" \in html.attrs)
        /\ (/\ html.attrs \cap {"itemtype", "itemscope", "vocab", "typeof"} # {}
            /\ result.technicalSEO.schemaTypes = <<>>)
              => AwardedPoints("schema") = 4

\* C25: whatever the number of images, a page with at least one image
\* without alt text gets fewer than 4 points on the image-alt rule and gets
\* the alt-attribute recommendation.
MissingAltNeverFullPoints ==
    pc = "returned" /\ result.images.withoutAlt >= 1 =>
        /\ AwardedPoints("alt") < 4
        /\ \E i \in 1..Len(result.recommendations) : result.recommendations[i].rule = "alt"

\* C26: a page whose total score is 100 receives an empty recommendation
\* list.
PerfectScoreNoRecommendations ==
    pc = "returned" /\ result.score = 100 => result.recommendations = <<>>

\* The category a details entry belongs to, by the rule that pushed it.
RuleCategory(rule) ==
    CASE rule \in {"title", "description", "h1", "headings", "alt", "content"} -> "onPage"
      [] rule \in {"ssl", "robots", "sitemap", "analytics", "schema"} -> "technical"
      [] rule \in {"phone", "address", "localBusiness"} -> "local"
      [] rule = "social" -> "social"

\* The sum of the "+N" values of the entries of one category.
StatedCategoryPoints(details, category) ==
    SumSeq([i \in 1..Len(details) |->
               IF RuleCategory(details[i].rule) = category THEN details[i].plus ELSE 0])

\* C27: the "+N" values of all details entries add up to the total score,
\* and those of each category to that category's total.
DetailsAddUpToScores ==
    pc = "returned" =>
        /\ SumSeq([i \in 1..Len(result.scoreBreakdown.details) |->
                      result.scoreBreakdown.details[i].plus]) = result.score
        /\ StatedCategoryPoints(result.scoreBreakdown.details, "onPage")
              = result.scoreBreakdown.onPage
        /\ StatedCategoryPoints(result.scoreBreakdown.details, "technical")
              = result.scoreBreakdown.technical
        /\ StatedCategoryPoints(result.scoreBreakdown.details, "local")
              = result.scoreBreakdown.local
        /\ StatedCategoryPoints(result.scoreBreakdown.details, "social")
              = result.scoreBreakdown.social

\* C27 witness: an audit with points in every category and the two-entry
\* rules (robots.txt, sitemap) both awarding.
EveryCategoryStated ==
    /\ pc = "returned"
    /\ hasRobotsTxt /\ hasSitemap
    /\ result.scoreBreakdown.onPage > 0
    /\ result.scoreBreakdown.technical > 10
    /\ result.scoreBreakdown.local > 0
    /\ result.scoreBreakdown.social > 0
    /\ result.score < 100

\* C28: in checkAltTags, for every list of images, altCoverage lies in
\* 0..100 and imagesWithAlt + imagesWithoutAlt equals relevantImages.
AltStatisticsConsistent ==
    altTags.pc = "returned" =>
        /\ altTags.result.statistics.altCoverage \in 0..100
        /\ altTags.result.statistics.imagesWithAlt
              + altTags.result.statistics.imagesWithoutAlt
              = altTags.result.statistics.relevantImages

\* C29: once the page is rendered, no JSON-LD script body makes
\* validateSchema throw (it reaches its catch block only when a browser
\* call rejects, never after the success-path close), and the result has
\* totalSchemas = |jsonLd| + |microdata| + |rdfa| with hasSchema true
\* exactly when totalSchemas > 0.
ValidateSchemaReturnsOnAnyContent ==
    /\ ~(vs.pc = "catch" /\ vs.browser = "closed")
    /\ vs.pc = "returned" =>
          /\ vs.result.summary.totalSchemas
                = Len(vs.result.schemas.jsonLd) + Len(vs.result.schemas.microdata)
                  + Len(vs.result.schemas.rdfa)
          /\ vs.result.summary.hasSchema <=> vs.result.summary.totalSchemas > 0

\* C30: browser.close() is called at most once per invocation of
\* analyzeSEO and of validateSchema.
CloseCalledAtMostOnce ==
    /\ closeCalls <= 1
    /\ vs.pc # "idle" => vs.closeCalls <= 1

=============================================================================
